---- MODULE Spec2Model ----
(***************************************************************************)
(* Beryl backend: the analysis pipeline (Chunker -> Embedder.index ->      *)
(* Analyzer._extract_features -> Analyzer._discover_products ->            *)
(* Analyzer._analyze_product x N -> filter/sort -> stored FinalOutput) as  *)
(* driven by AnalysisOrchestrator.run and by api/streaming.progress_stream,*)
(* and the follow-up handlers (AnalysisOrchestrator.handle_followup and    *)
(* the /followup endpoint).                                                *)
(*                                                                         *)
(* External collaborators (embedding service, text-generation service,     *)
(* vector store) are nondeterministic: every call may succeed with any     *)
(* response of a bounded set, or fail.                                     *)
(***************************************************************************)
EXTENDS Integers, Sequences, FiniteSets, TLC

(***************************************************************************)
(* Bounds of the model.                                                    *)
(***************************************************************************)
\* most entity names a discovery response lists
MaxEntities == 2
\* largest overall / dimension score a generation response carries
MaxScore == 2
\* most content units the Segmenter produces in a run
MaxChunks == 1

(***************************************************************************)
(* Python values.  Optional[T] is a sequence: <<>> is None, <<v>> is v.    *)
(***************************************************************************)
None == <<>>
Some(v) == <<v>>
IsNone(o) == o = <<>>
Val(o) == o[1]

(***************************************************************************)
(* Strings are sequences of one-character strings, so that lower(),        *)
(* split(), replace(), title() and the `in` operator are computed and not  *)
(* assumed.                                                                *)
(***************************************************************************)
LowerLetters ==
  << "a","b","c","d","e","f","g","h","i","j","k","l","m",
     "n","o","p","q","r","s","t","u","v","w","x","y","z" >>
SeqToSetOf(s) == {s[i] : i \in 1..Len(s)}

UpperLetters ==
  << "A","B","C","D","E","F","G","H","I","J","K","L","M",
     "N","O","P","Q","R","S","T","U","V","W","X","Y","Z" >>

LetterIndex == 1..Len(LowerLetters)
ToLower == [c \in SeqToSetOf(UpperLetters) |->
              LowerLetters[CHOOSE i \in LetterIndex : UpperLetters[i] = c]]
ToUpper == [c \in SeqToSetOf(LowerLetters) |->
              UpperLetters[CHOOSE i \in LetterIndex : LowerLetters[i] = c]]

IsUpper(c) == c \in DOMAIN ToLower
IsLower(c) == c \in DOMAIN ToUpper
IsLetter(c) == IsUpper(c) \/ IsLower(c)

\* str.lower() on one character
LowerChar(c) == IF IsUpper(c) THEN ToLower[c] ELSE c

\* str.upper() on one character
UpperChar(c) == IF IsLower(c) THEN ToUpper[c] ELSE c

\* str.lower()
StrLower(s) == [i \in 1..Len(s) |-> LowerChar(s[i])]

\* str.replace("_", " ")
ReplaceUnderscore(s) == [i \in 1..Len(s) |-> IF s[i] = "_" THEN " " ELSE s[i]]

\* str.title(): a letter that follows a non-letter (or starts the string) is
\* upper-cased, every other letter is lower-cased
StrTitle(s) ==
  [i \in 1..Len(s) |->
     IF i = 1 \/ ~IsLetter(s[i - 1]) THEN UpperChar(s[i]) ELSE LowerChar(s[i])]

\* str.split() with no argument: maximal runs of non-blank characters, in order
RECURSIVE SplitFrom(_, _, _)
SplitFrom(s, i, cur) ==
  IF i > Len(s)
  THEN (IF cur = <<>> THEN <<>> ELSE <<cur>>)
  ELSE IF s[i] = " "
       THEN (IF cur = <<>> THEN <<>> ELSE <<cur>>) \o SplitFrom(s, i + 1, <<>>)
       ELSE SplitFrom(s, i + 1, Append(cur, s[i]))

StrSplit(s) == SplitFrom(s, 1, <<>>)

\* Python's `needle in hay` on strings
StrIn(needle, hay) ==
  \E i \in 0..(Len(hay) - Len(needle)) :
     SubSeq(hay, i + 1, i + Len(needle)) = needle

SeqToSet(s) == SeqToSetOf(s)
Reverse(s) == [i \in 1..Len(s) |-> s[Len(s) + 1 - i]]


(***************************************************************************)
(* list.sort(key=..., reverse=True) / sorted(..., reverse=True).           *)
(* CPython sorts stably; with reverse=True it reverses the list, sorts it  *)
(* ascending and stably, and reverses the result, so that equal keys keep  *)
(* their original relative order.  Entries are <<key, item>> pairs.        *)
(***************************************************************************)
RECURSIVE InsertAsc(_, _)
InsertAsc(sorted, x) ==
  IF sorted = <<>> THEN <<x>>
  ELSE IF x[1] < Head(sorted)[1]
       THEN <<x>> \o sorted
       ELSE <<Head(sorted)>> \o InsertAsc(Tail(sorted), x)

RECURSIVE SortAsc(_)
SortAsc(pairs) ==
  IF pairs = <<>> THEN <<>>
  ELSE InsertAsc(SortAsc(SubSeq(pairs, 1, Len(pairs) - 1)), pairs[Len(pairs)])

\* a plausible slip: sort ascending, then reverse (equal keys end up reversed)
PySortReverseUnstable(pairs) == Reverse(SortAsc(pairs))

PySortReverse(pairs) == Reverse(SortAsc(Reverse(pairs)))

Items(pairs) == [i \in 1..Len(pairs) |-> pairs[i][2]]

(***************************************************************************)
(* Vocabulary of the text the generation service and the user supply.      *)
(***************************************************************************)
kBatteryLife == <<"b","a","t","t","e","r","y","_","l","i","f","e">>
kUiSpeed == <<"u","i","_","s","p","e","e","d">>
kOs == <<"o","s">>
kQuality == <<"q","u","a","l","i","t","y">>
kPerformance == <<"p","e","r","f","o","r","m","a","n","c","e">>
kValueForMoney == <<"v","a","l","u","e","_","f","o","r","_","m","o","n","e","y">>
kDesign == <<"d","e","s","i","g","n">>
\* a key the service wrote with capitals
kOsSpeed == <<"O","S","_","S","p","e","e","d">>

lBatteryLife == <<"B","a","t","t","e","r","y"," ","L","i","f","e">>
lSoftware == <<"S","o","f","t","w","a","r","e">>
lEndurance == <<"E","n","d","u","r","a","n","c","e">>

\* follow-up texts
qBestBattery == <<"B","e","s","t"," ","B","A","T","T","E","R","Y","?">>
qSpeedLifetime == <<"s","p","e","e","d"," ","l","i","f","e","t","i","m","e">>
qUi == <<"u","i">>
qSoftware == <<"S","O","F","T","W","A","R","E">>
qPerformance == <<"P","e","r","f","o","r","m","a","n","c","e">>
FollowupQueries == {qBestBattery, qSpeedLifetime, qUi, qSoftware, qPerformance}

\* the follow-up text sent while a run is followed stage by stage (ranked
\* views are followed in SpecFollowup)
RunQueries == {qUi}

(***************************************************************************)
(* Analyzer._extract_features: the schema response of the generation       *)
(* service, or its failure.                                                *)
(***************************************************************************)
\* the JSON objects the service may answer with: "features" and a possibly
\* partial "feature_labels"
SchemaResponses ==
  { [ok |-> TRUE,
     features |-> <<kBatteryLife, kUiSpeed>>,
     feature_labels |-> [k \in {kBatteryLife} |-> lBatteryLife]],
    [ok |-> TRUE,
     features |-> <<kOs, kBatteryLife>>,
     feature_labels |-> [k \in {kOs, kBatteryLife} |->
                           IF k = kOs THEN lSoftware ELSE lEndurance]],
    [ok |-> TRUE,
     features |-> <<kDesign, kOsSpeed>>,
     feature_labels |-> [k \in {kOsSpeed} |-> lSoftware]] }

\* the call raising, or its content not parsing as JSON
SchemaFailure == [ok |-> FALSE, features |-> <<>>, feature_labels |-> <<>>]

\* a plausible slip: the defaults in another order
FallbackFeaturesReordered ==
  <<kQuality, kPerformance, kDesign, kBatteryLife, kValueForMoney>>

FallbackFeatures == <<kQuality, kPerformance, kBatteryLife, kValueForMoney, kDesign>>

AutoLabel(f) == StrTitle(ReplaceUnderscore(f))

\* (features, labels) as _extract_features returns them
ExtractFeaturesResult(resp) ==
  IF resp.ok
  THEN [features |-> resp.features,
        feature_labels |->
          [f \in (DOMAIN resp.feature_labels) \cup SeqToSet(resp.features) |->
             IF f \in DOMAIN resp.feature_labels
             THEN resp.feature_labels[f]
             ELSE AutoLabel(f)]]
  ELSE [features |-> FallbackFeatures,
        feature_labels |-> [f \in SeqToSet(FallbackFeatures) |-> AutoLabel(f)]]


(***************************************************************************)
(* Analyzer._discover_products: the discovery response.                    *)
(* Entity names are the integers 1..n, in the order the response lists     *)
(* them.                                                                   *)
(***************************************************************************)
DiscoveryResponses ==
  {[kind |-> "error", n |-> 0], [kind |-> "unparsable", n |-> 0],
   [kind |-> "nonlist", n |-> 0]}
  \cup {[kind |-> "list", n |-> n] : n \in 0..MaxEntities}

\* product_names as the try/except of _discover_products yields them
ParseDiscovery(resp) ==
  IF resp.kind = "list" THEN [i \in 1..resp.n |-> i] ELSE <<>>

(***************************************************************************)
(* Analyzer._analyze_product: the analysis response for one entity.        *)
(* A response carries a name, an optional overall_score and a mapping     *)
(* from dimension keys to scores (summary, evidence, price and verdict are *)
(* carried through unchanged and are left out).  A name is <<>> for the    *)
(* empty string or <<i>> for the name of entity i.                         *)
(***************************************************************************)
OverallScores == {None} \cup {Some(v) : v \in (0 - 1)..MaxScore}

\* the responses that carry one of `names` and one of the dimension
\* mappings `maps`
AnalysisResponsesWith(names, maps) ==
  {[kind |-> "error", name |-> <<>>, overall_score |-> None, features |-> <<>>],
   [kind |-> "unparsable", name |-> <<>>, overall_score |-> None, features |-> <<>>]}
  \cup {[kind |-> "json", name |-> nm, overall_score |-> o, features |-> fm] :
          nm \in names, o \in OverallScores, fm \in maps}

\* the names the service may write for the entity the prompt names: that
\* name, or none
ResponseNames(product_name) == {<<product_name>>, <<>>}

\* the responses drawn while a run is followed stage by stage: every overall
\* score, no dimension (dimension mappings are drawn in SpecFollowup)
AnalysisResponses(product_name) ==
  AnalysisResponsesWith(ResponseNames(product_name), {<<>>})

\* _parse_product_analysis
ParseProductAnalysis(data) ==
  [name |-> data.name,
   overall_score |-> data.overall_score,
   features |-> data.features]

\* a plausible slip: a failed generation call aborts instead of yielding None
AnalyzeProductResultRaising(product_name, nchunks, mentioned, resp) ==
  IF nchunks = 0 THEN [outcome |-> "nochunks", result |-> None, generated |-> FALSE]
  ELSE IF ~mentioned
  THEN [outcome |-> "nomention", result |-> None, generated |-> FALSE]
  ELSE IF resp.kind # "json"
  THEN [outcome |-> "raise", result |-> None, generated |-> TRUE]
  ELSE [outcome |-> "ok",
        result |-> Some(ParseProductAnalysis(resp)),
        generated |-> TRUE]

\* _analyze_product once the retrieval has returned nchunks units:
\* the outcome, the Optional[ProductAnalysis], and whether the generation
\* service was called
AnalyzeProductResult(product_name, nchunks, mentioned, resp) ==
  IF nchunks = 0 THEN [outcome |-> "nochunks", result |-> None, generated |-> FALSE]
  ELSE IF ~mentioned
  THEN [outcome |-> "nomention", result |-> None, generated |-> FALSE]
  ELSE IF resp.kind # "json"
  THEN [outcome |-> resp.kind, result |-> None, generated |-> TRUE]
  ELSE [outcome |-> "ok",
        result |-> Some(ParseProductAnalysis(resp)),
        generated |-> TRUE]

(***************************************************************************)
(* The end of Analyzer.analyze and of progress_stream: filter, then sort.  *)
(***************************************************************************)
\* Python truthiness of an Optional[number]
Truthy(o) == ~IsNone(o) /\ Val(o) # 0

\* `p.overall_score or 0`
OrZero(o) == IF Truthy(o) THEN Val(o) ELSE 0

\* `if product_analysis: final_output.products.append(product_analysis)`
NonNone(results) == SelectSeq(results, LAMBDA r : ~IsNone(r))
Appended(results) == [i \in 1..Len(NonNone(results)) |-> Val(NonNone(results)[i])]

\* `p.overall_score and p.overall_score > 0`
KeepProduct(p) == Truthy(p.overall_score) /\ Val(p.overall_score) > 0

FilterProducts(products) == SelectSeq(products, KeepProduct)

SortByOverall(products) ==
  Items(PySortReverse(
    [i \in 1..Len(products) |-> <<OrZero(products[i].overall_score), products[i]>>]))

\* the product list stored in FinalOutput, from the per-entity results
FinalProducts(results) == SortByOverall(FilterProducts(Appended(results)))


(***************************************************************************)
(* State of one run (one AnalysisOrchestrator and the driver running it).  *)
(***************************************************************************)
VARIABLES
  mode,           \* "sync": AnalysisOrchestrator.run; "stream": progress_stream
  stage,          \* the Coordinator's stage
  all_chunks,     \* the units chunk_all returned (unit ids)
  collection,     \* Embedder.collection: the set of indexed unit ids
  features,       \* Analyzer.features
  feature_labels, \* Analyzer.feature_labels
  product_names,  \* the discovered entity names
  results,        \* per entity analysed so far: Optional[ProductAnalysis]
  outcomes,       \* per entity analysed so far: how _analyze_product ended
  final_output,   \* AnalysisOrchestrator.final_output: Optional[FinalOutput]
  calls,          \* how often each component / collaborator was called
  terminal,       \* what the run handed to its caller when it ended
  escaped,        \* the components an exception propagated out of
  reply           \* the response to the latest follow-up

(***************************************************************************)
(* State of a Chunker and of the calls made on it.                         *)
(***************************************************************************)
VARIABLES
  chunk_size,     \* Chunker.chunk_size
  overlap,        \* Chunker.overlap
  articles,       \* the ArticleSource list passed to chunk_all
  videos,         \* the VideoSource list passed to chunk_all
  produced        \* what each chunk_all call so far returned

chunkerVars == <<chunk_size, overlap, articles, videos, produced>>

(***************************************************************************)
(* State of one call of Chunker._chunk_video_with_timestamps, followed     *)
(* iteration by iteration.                                                 *)
(***************************************************************************)
VARIABLES
  timed_video,    \* the VideoSource passed to the call
  seg_i,          \* the start pointer i
  seg_index,      \* chunk_index
  seg_chunks,     \* chunks
  seg_pc          \* "idle", "loop": at the test of the outer while, "returned"

timedVars == <<timed_video, seg_i, seg_index, seg_chunks, seg_pc>>

(***************************************************************************)
(* State of one Embedder used through index and search.                    *)
(***************************************************************************)
VARIABLES
  stored,         \* the entries of self.collection, in insertion order
  last_build,     \* the chunks of the latest non-empty index call that returned
  index_calls,    \* the number of index calls made
  search_result   \* None, or the outcome of the latest search call

indexVars == <<stored, last_build, index_calls, search_result>>

(***************************************************************************)
(* State of the process-wide SessionStore and of the orchestrators it      *)
(* holds.                                                                  *)
(***************************************************************************)
VARIABLES
  shared_system,  \* whether the in-memory clients of chromadb share one store
  sessions,       \* SessionStore._sessions: session_id -> orchestrator
  used_ids,       \* the session ids uuid4 produced so far
  orchestrators,  \* the AnalysisOrchestrator objects made, by number
  chroma,         \* the "chunks" collections that exist, by the store they are in
  lookups         \* per session id: the outcome of its latest /followup

sessionVars == <<shared_system, sessions, used_ids, orchestrators, chroma, lookups>>

(***************************************************************************)
(* State of one call of Analyzer._extract_features and of the step of its  *)
(* caller that follows it.                                                 *)
(***************************************************************************)
VARIABLES
  schema_input,   \* what the generation call did: raised, or its content
  schema_pc,      \* "idle", "SchemaDiscovery", "EntityDiscovery"
  schema_out      \* the (features, labels) pair the call returned

schemaVars == <<schema_input, schema_pc, schema_out>>

(***************************************************************************)
(* State of one call of Analyzer._analyze_product, from the units its      *)
(* retrieval returned.                                                     *)
(***************************************************************************)
VARIABLES
  mention_name,   \* product_name
  mention_chunks, \* chunks, as search_by_product returned them
  mention_pc,     \* "idle", "retrieved", "returned"
  mention_kept,   \* relevant_chunks
  mention_result  \* how the call ended, and what it returned

mentionVars == <<mention_name, mention_chunks, mention_pc, mention_kept, mention_result>>

(***************************************************************************)
(* State of one generation call of Analyzer._analyze_product and of the    *)
(* parsing of its response.                                                *)
(***************************************************************************)
VARIABLES
  parse_features, \* Analyzer.features of the run
  parse_units,    \* relevant_chunks: the units written into the prompt
  parse_data,     \* data: the JSON object the service answered with
  parse_pc,       \* "idle", "answered", "returned"
  parse_out       \* the Optional[ProductAnalysis] _analyze_product returned

parseVars == <<parse_features, parse_units, parse_data, parse_pc, parse_out>>

(***************************************************************************)
(* State of one progress_stream generator, of the session it runs for and  *)
(* of the follow-ups sent to that session.                                 *)
(***************************************************************************)
VARIABLES
  stream_pc,      \* where the generator is suspended: "created", "chunking",
                  \* "indexing", "extracting", "discovering", "found",
                  \* "analyzing", "closed"
  stream_events,  \* the events the generator has yielded, in order
  stream_indexed, \* the number of units in the session's collection
  stream_names,   \* product_names
  stream_results, \* per entity analysed so far: Optional[ProductAnalysis]
  stream_output,  \* orchestrator.final_output
  stream_reply    \* the response to the latest POST /followup

streamVars == <<stream_pc, stream_events, stream_indexed, stream_names,
                stream_results, stream_output, stream_reply>>

\* the variable groups of the further specifications
laterVars == <<schemaVars, mentionVars, parseVars, streamVars>>

\* the state outside the run of one AnalysisOrchestrator
extraVars == <<chunkerVars, timedVars, indexVars, sessionVars, laterVars>>

vars == <<mode, stage, all_chunks, collection, features, feature_labels,
          product_names, results, outcomes, final_output, calls, terminal,
          escaped, reply, extraVars>>

pipelineVars == <<mode, stage, all_chunks, collection, features, feature_labels,
                  product_names, results, outcomes, final_output, calls, terminal,
                  escaped, reply>>

runVars == <<mode, stage, all_chunks, collection, features, feature_labels,
             product_names, results, outcomes, final_output, calls, terminal,
             escaped>>

runVarsButOutput == <<mode, stage, all_chunks, collection, features, feature_labels,
                      product_names, results, outcomes, calls, terminal, escaped>>

\* what the steps of the further specifications leave alone
othersOfSchema == <<pipelineVars, chunkerVars, timedVars, indexVars,
                   sessionVars, mentionVars, parseVars, streamVars>>

othersOfMention == <<pipelineVars, chunkerVars, timedVars, indexVars,
                    sessionVars, schemaVars, parseVars, streamVars>>

othersOfParse == <<pipelineVars, chunkerVars, timedVars, indexVars,
                  sessionVars, schemaVars, mentionVars, streamVars>>

othersOfStream == <<pipelineVars, chunkerVars, timedVars, indexVars,
                   sessionVars, schemaVars, mentionVars, parseVars>>

Stages == {"Idle", "Segmenting", "Indexing", "SchemaDiscovery", "EntityDiscovery",
           "Analyzing", "Done", "Aborted", "Failed"}

NoCalls ==
  [chunk_all |-> 0, index |-> 0, extract_features |-> 0, discover_products |-> 0,
   analyze_product |-> 0, embed_index |-> 0, embed_query |-> 0, generate |-> 0,
   sleep |-> 0]

Bump(c, names) ==
  [k \in DOMAIN c |-> IF k \in names THEN c[k] + 1 ELSE c[k]]

NoTerminal == [kind |-> "none", products |-> <<>>, message |-> "", detail |-> ""]
NoReply ==
  [via |-> "none", raised |-> FALSE, status |-> 0, response_type |-> "none",
   answer |-> "", primary |-> <<>>, matched |-> <<>>, products |-> <<>>,
   generated |-> FALSE, query |-> <<>>]

\* no run is followed: the state of a fresh AnalysisOrchestrator
PipelineIdle ==
  /\ mode = "sync"
  /\ stage = "Idle"
  /\ all_chunks = <<>>
  /\ collection = {}
  /\ features = <<>>
  /\ feature_labels = <<>>
  /\ product_names = <<>>
  /\ results = <<>>
  /\ outcomes = <<>>
  /\ final_output = None
  /\ calls = NoCalls
  /\ terminal = NoTerminal
  /\ escaped = {}
  /\ reply = NoReply

\* no Chunker is followed call by call
ChunkerIdle ==
  /\ chunk_size = 0
  /\ overlap = 0
  /\ articles = <<>>
  /\ videos = <<>>
  /\ produced = <<>>

\* no call of _chunk_video_with_timestamps is followed step by step
TimedIdle ==
  /\ timed_video = [video_id |-> "", transcript |-> <<>>, transcript_segments |-> <<>>]
  /\ seg_i = 0
  /\ seg_index = 0
  /\ seg_chunks = <<>>
  /\ seg_pc = "idle"

\* a new Embedder on which nothing was called
IndexIdle ==
  /\ stored = <<>>
  /\ last_build = <<>>
  /\ index_calls = 0
  /\ search_result = None

\* the SessionStore right after `session_store = SessionStore()`
EmptyFunction == [x \in {} |-> x]

SessionsEmpty ==
  /\ sessions = EmptyFunction
  /\ used_ids = {}
  /\ orchestrators = <<>>
  /\ chroma = EmptyFunction
  /\ lookups = EmptyFunction

\* no session is followed
SessionsIdle ==
  /\ shared_system = FALSE
  /\ SessionsEmpty

\* no call of _extract_features is followed
SchemaIdle ==
  /\ schema_input = [kind |-> "none", f |-> 0, l |-> 0]
  /\ schema_pc = "idle"
  /\ schema_out = [features |-> [t |-> "null", v |-> <<>>],
                   feature_labels |-> [t |-> "null", v |-> <<>>]]

\* no call of _analyze_product is followed from its retrieval on
MentionIdle ==
  /\ mention_name = <<>>
  /\ mention_chunks = <<>>
  /\ mention_pc = "idle"
  /\ mention_kept = <<>>
  /\ mention_result = [outcome |-> "none", result |-> None, generated |-> FALSE]

\* no generation call of _analyze_product is followed
ParseIdle ==
  /\ parse_features = <<>>
  /\ parse_units = <<>>
  /\ parse_data = [features |-> <<>>]
  /\ parse_pc = "idle"
  /\ parse_out = None

NoStreamReply == [status |-> 0, answer |-> "", after_done |-> FALSE]

\* no streamed run is followed
StreamIdle ==
  /\ stream_pc = "idle"
  /\ stream_events = <<>>
  /\ stream_indexed = 0
  /\ stream_names = <<>>
  /\ stream_results = <<>>
  /\ stream_output = None
  /\ stream_reply = NoStreamReply

\* none of the further specifications is followed
LaterIdle ==
  /\ SchemaIdle
  /\ MentionIdle
  /\ ParseIdle
  /\ StreamIdle

\* all but the state of SpecSchema is idle
OthersIdleOfSchema ==
  /\ PipelineIdle
  /\ ChunkerIdle
  /\ TimedIdle
  /\ IndexIdle
  /\ SessionsIdle
  /\ MentionIdle
  /\ ParseIdle
  /\ StreamIdle

\* all but the state of SpecMention is idle
OthersIdleOfMention ==
  /\ PipelineIdle
  /\ ChunkerIdle
  /\ TimedIdle
  /\ IndexIdle
  /\ SessionsIdle
  /\ SchemaIdle
  /\ ParseIdle
  /\ StreamIdle

\* all but the state of SpecParse is idle
OthersIdleOfParse ==
  /\ PipelineIdle
  /\ ChunkerIdle
  /\ TimedIdle
  /\ IndexIdle
  /\ SessionsIdle
  /\ SchemaIdle
  /\ MentionIdle
  /\ StreamIdle

\* all but the state of SpecStream is idle
OthersIdleOfStream ==
  /\ PipelineIdle
  /\ ChunkerIdle
  /\ TimedIdle
  /\ IndexIdle
  /\ SessionsIdle
  /\ SchemaIdle
  /\ MentionIdle
  /\ ParseIdle

ExtraIdle ==
  /\ ChunkerIdle
  /\ TimedIdle
  /\ IndexIdle
  /\ SessionsIdle
  /\ LaterIdle

Init ==
  /\ ExtraIdle
  /\ mode \in {"sync", "stream"}
  /\ stage = "Idle"
  /\ all_chunks = <<>>
  /\ collection = {}
  /\ features = <<>>
  /\ feature_labels = <<>>
  /\ product_names = <<>>
  /\ results = <<>>
  /\ outcomes = <<>>
  /\ final_output = None
  /\ calls = NoCalls
  /\ terminal = NoTerminal
  /\ escaped = {}
  /\ reply = NoReply

(***************************************************************************)
(* How the run ends.                                                       *)
(***************************************************************************)
\* an exception e leaves the components in `from`: AnalysisOrchestrator.run
\* lets it propagate to its caller; progress_stream catches it and emits an
\* error event whose message contains str(e)
Raise(e, from) ==
  /\ stage' = "Failed"
  /\ IF mode = "sync"
     THEN /\ terminal' = [kind |-> "raised", products |-> <<>>,
                          message |-> "", detail |-> e]
          /\ escaped' = escaped \cup from \cup {"AnalysisOrchestrator.run"}
     ELSE /\ terminal' = [kind |-> "error", products |-> <<>>,
                          message |-> "Something went wrong: ", detail |-> e]
          /\ escaped' = escaped \cup from


\* top_k of the discovery retrieval and of the per-entity retrieval
DiscoveryTopK == 20
ProductTopK == 5

Min(a, b) == IF a < b THEN a ELSE b

\* the number of units collection.query returns for n_results = top_k
SearchCount(top_k) == Min(top_k, Cardinality(collection))

\* `if not all_chunks: return FinalOutput(query=user_query)` is in
\* AnalysisOrchestrator.run only; progress_stream has no such test
AbortsOnNoChunks(m) == m = "sync"

\* a plausible slip: the empty discovery is not tested for
NoProductsNever(names) == FALSE

\* `if not product_names:` after _discover_products
NoProducts(names) == names = <<>>

\* a plausible slip: the filter/sort/store block indented into the loop
LoopFinishedEarly(rs, names) == Len(rs) >= 1

\* the `for product_name in product_names` loop has run out
LoopFinished(rs, names) == Len(rs) = Len(names)

(***************************************************************************)
(* The stages of a run.                                                    *)
(***************************************************************************)
StartRun ==
  /\ stage = "Idle"
  /\ stage' = "Segmenting"
  /\ UNCHANGED extraVars
  /\ UNCHANGED <<mode, all_chunks, collection, features, feature_labels,
                 product_names, results, outcomes, final_output, calls,
                 terminal, escaped, reply>>

\* Chunker.chunk_all: the documents yield 0..MaxChunks units
ChunkAll ==
  /\ stage = "Segmenting"
  /\ \E n \in 0..MaxChunks : all_chunks' = [i \in 1..n |-> i]
  /\ calls' = Bump(calls, {"chunk_all"})
  /\ stage' = "Indexing"
  /\ UNCHANGED extraVars
  /\ UNCHANGED <<mode, collection, features, feature_labels, product_names,
                 results, outcomes, final_output, terminal, escaped, reply>>

\* Embedder.index, preceded in AnalysisOrchestrator.run by the no-chunks test
Index ==
  /\ stage = "Indexing"
  /\ IF AbortsOnNoChunks(mode) /\ all_chunks = <<>>
     THEN /\ stage' = "Aborted"
          /\ terminal' = [NoTerminal EXCEPT !.kind = "returned"]
          /\ UNCHANGED <<collection, calls, escaped>>
     ELSE \E embOK \in BOOLEAN :
            IF all_chunks = <<>>
            THEN /\ stage' = "SchemaDiscovery"
                 /\ calls' = Bump(calls, {"index"})
                 /\ UNCHANGED <<collection, terminal, escaped>>
            ELSE IF embOK
            THEN /\ stage' = "SchemaDiscovery"
                 /\ collection' = collection \cup SeqToSet(all_chunks)
                 /\ calls' = Bump(calls, {"index", "embed_index"})
                 /\ UNCHANGED <<terminal, escaped>>
            ELSE /\ Raise("embedding failed", {"Embedder._embed", "Embedder.index"})
                 /\ calls' = Bump(calls, {"index", "embed_index"})
                 /\ UNCHANGED collection
  /\ UNCHANGED extraVars
  /\ UNCHANGED <<mode, all_chunks, features, feature_labels, product_names,
                 results, outcomes, final_output, reply>>

\* Analyzer._extract_features and the assignment of its result
ExtractFeatures ==
  /\ stage = "SchemaDiscovery"
  /\ \E resp \in SchemaResponses \cup {SchemaFailure} :
       /\ features' = ExtractFeaturesResult(resp).features
       /\ feature_labels' = ExtractFeaturesResult(resp).feature_labels
  /\ calls' = Bump(calls, {"extract_features", "generate"})
  /\ stage' = "EntityDiscovery"
  /\ UNCHANGED extraVars
  /\ UNCHANGED <<mode, all_chunks, collection, product_names, results, outcomes,
                 final_output, terminal, escaped, reply>>

\* the components a failed query embedding propagates out of
SearchEscapes(component) ==
  {"Embedder._embed", "Embedder.search", component}
  \cup (IF mode = "sync" THEN {"Analyzer.analyze"} ELSE {})

\* Analyzer._discover_products, and the empty-list exit of its caller
DiscoverProducts ==
  /\ stage = "EntityDiscovery"
  /\ \E embOK \in BOOLEAN, resp \in DiscoveryResponses :
       IF ~embOK
       THEN /\ Raise("embedding failed", SearchEscapes("Analyzer._discover_products"))
            /\ calls' = Bump(calls, {"discover_products", "embed_query"})
            /\ UNCHANGED <<product_names, final_output>>
       ELSE LET n == SearchCount(DiscoveryTopK)
                names == IF n = 0 THEN <<>> ELSE ParseDiscovery(resp)
            IN /\ calls' = Bump(calls, {"discover_products", "embed_query"}
                                       \cup (IF n = 0 THEN {} ELSE {"generate"}))
               /\ product_names' = names
               /\ UNCHANGED escaped
               /\ IF NoProducts(names)
                  THEN /\ stage' = "Aborted"
                       /\ IF mode = "sync"
                          THEN /\ final_output' = Some([products |-> <<>>])
                               /\ terminal' = [NoTerminal EXCEPT !.kind = "returned"]
                          ELSE /\ final_output' = final_output
                               /\ terminal' =
                                    [NoTerminal EXCEPT
                                       !.kind = "error",
                                       !.message = "Could not find any products in the search results. Try a different query."]
                  ELSE /\ stage' = "Analyzing"
                       /\ UNCHANGED <<final_output, terminal>>
  /\ UNCHANGED extraVars
  /\ UNCHANGED <<mode, all_chunks, collection, features, feature_labels, results,
                 outcomes, reply>>

\* one iteration of the per-product loop; after the last product the list is
\* filtered, sorted and stored
AnalyzeProduct ==
  /\ stage = "Analyzing"
  /\ Len(results) < Len(product_names)
  /\ \E embOK \in BOOLEAN, mentioned \in BOOLEAN,
        resp \in AnalysisResponses(product_names[Len(results) + 1]) :
       LET product_name == product_names[Len(results) + 1]
           r == AnalyzeProductResult(product_name, SearchCount(ProductTopK),
                                     mentioned, resp)
           called == {"analyze_product", "embed_query"}
                     \cup (IF r.generated THEN {"generate"} ELSE {})
       IN IF ~embOK
          THEN /\ Raise("embedding failed", SearchEscapes("Analyzer._analyze_product"))
               /\ calls' = Bump(calls, {"analyze_product", "embed_query"})
               /\ UNCHANGED <<results, outcomes, final_output>>
          ELSE IF r.outcome = "raise"   \* an exception leaves _analyze_product
          THEN /\ Raise("generation failed",
                        {"Analyzer._analyze_product"}
                        \cup (IF mode = "sync" THEN {"Analyzer.analyze"} ELSE {}))
               /\ calls' = Bump(calls, called)
               /\ UNCHANGED <<results, outcomes, final_output>>
          ELSE /\ results' = Append(results, r.result)
               /\ outcomes' = Append(outcomes, r.outcome)
               /\ calls' = Bump(calls, called \cup (IF mode = "sync" THEN {"sleep"} ELSE {}))
               /\ UNCHANGED escaped
               /\ IF LoopFinished(results', product_names)
                  THEN /\ stage' = "Done"
                       /\ final_output' = Some([products |-> FinalProducts(results')])
                       /\ terminal' =
                            [NoTerminal EXCEPT
                               !.kind = IF mode = "sync" THEN "returned" ELSE "done",
                               !.products = FinalProducts(results')]
                  ELSE UNCHANGED <<stage, final_output, terminal>>
  /\ UNCHANGED extraVars
  /\ UNCHANGED <<mode, all_chunks, collection, features, feature_labels,
                 product_names, reply>>


(***************************************************************************)
(* Follow-ups.                                                             *)
(***************************************************************************)
\* analyzed_labels.get(feature_key, "")
LabelOf(labels, k) == IF k \in DOMAIN labels THEN labels[k] ELSE <<>>

\* key_words + label_words of _detect_features
AllWords(labels, k) ==
  StrSplit(ReplaceUnderscore(k)) \o StrSplit(StrLower(LabelOf(labels, k)))

\* any(word in query_lower for word in all_words if len(word) > 2)
FeatureMatches(query, labels, k) ==
  LET words == AllWords(labels, k)
      query_lower == StrLower(query)
  IN \E i \in 1..Len(words) : Len(words[i]) > 2 /\ StrIn(words[i], query_lower)

\* _detect_features: the matched keys, in the order of Analyzer.features
DetectFeatures(query, feats, labels) ==
  SelectSeq(feats, LAMBDA k : FeatureMatches(query, labels, k))

\* the (features, labels) pairs an Analyzer can hold, and _detect_features
\* tabulated over them and the follow-up texts
AnalyzerSchemas ==
  {[features |-> <<>>, feature_labels |-> <<>>]}
  \cup {ExtractFeaturesResult(resp) : resp \in SchemaResponses \cup {SchemaFailure}}

Detected ==
  [a \in {<<q, sc.features, sc.feature_labels>> :
            q \in FollowupQueries, sc \in AnalyzerSchemas} |->
     DetectFeatures(a[1], a[2], a[3])]

\* a plausible slip: rank by the last matched feature
PrimaryFeatureLast(matched) == matched[Len(matched)]

\* primary_feature = features[0]
PrimaryFeature(matched) == matched[1]

\* the sort key of _handle_feature_followup
RankKey(p, primary) ==
  IF primary \in DOMAIN p.features THEN p.features[primary] ELSE 0

\* sorted(self.final_output.products, key=..., reverse=True)
SortedProducts(products, primary) ==
  Items(PySortReverse([i \in 1..Len(products) |->
                         <<RankKey(products[i], primary), products[i]>>]))

\* one entry of product_dicts: only the matched features the product has
ProductDict(p, matched) ==
  [name |-> p.name,
   overall_score |-> p.overall_score,
   features |-> [k \in SeqToSet(matched) \cap DOMAIN p.features |-> p.features[k]]]

\* _handle_feature_followup
HandleFeatureFollowup(products, matched) ==
  LET sorted_products == SortedProducts(products, PrimaryFeature(matched))
  IN [response_type |-> "products",
      answer |-> "",
      primary |-> PrimaryFeature(matched),
      matched |-> matched,
      products |-> [i \in 1..Len(products) |-> ProductDict(sorted_products[i], matched)],
      generated |-> FALSE]

\* _handle_text_followup: one generation call, whose failure is answered
\* with a fixed apology
HandleTextFollowup(llmOK) ==
  [response_type |-> "text",
   answer |-> IF llmOK THEN "<generated answer>"
              ELSE "Sorry, I couldn't process that. Please try again.",
   primary |-> <<>>,
   matched |-> <<>>,
   products |-> <<>>,
   generated |-> TRUE]

NoAnalysisAnswer ==
  [response_type |-> "text",
   answer |-> "No analysis available yet. Please run a new search first.",
   primary |-> <<>>,
   matched |-> <<>>,
   products |-> <<>>,
   generated |-> FALSE]

\* AnalysisOrchestrator.handle_followup
HandleFollowupResult(fo, feats, labels, query, llmOK) ==
  IF IsNone(fo) \/ Val(fo).products = <<>>
  THEN NoAnalysisAnswer
  ELSE LET matched_features == Detected[<<query, feats, labels>>]
       IN IF matched_features # <<>>
          THEN HandleFeatureFollowup(Val(fo).products, matched_features)
          ELSE HandleTextFollowup(llmOK)

AsReply(via, raised, status, query, r) ==
  [via |-> via, raised |-> raised, status |-> status,
   response_type |-> r.response_type, answer |-> r.answer,
   primary |-> r.primary, matched |-> r.matched, products |-> r.products,
   generated |-> r.generated, query |-> query]

\* a plausible slip: self.final_output.products.sort(...) in place of sorted()
StoredProductsSortedInPlace(products, primary) == SortedProducts(products, primary)

\* self.final_output.products once _handle_feature_followup has returned:
\* sorted() builds a new list and dict.get() only reads
StoredProducts(products, primary) == products

\* self.final_output once handle_followup has returned
FinalOutputAfterFollowup(fo, feats, labels, query) ==
  IF IsNone(fo) \/ Val(fo).products = <<>>
  THEN fo
  ELSE LET matched_features == Detected[<<query, feats, labels>>]
       IN IF matched_features # <<>>
          THEN Some([products |-> StoredProducts(Val(fo).products,
                                                 PrimaryFeature(matched_features))])
          ELSE fo

\* a caller invokes AnalysisOrchestrator.handle_followup with a text of Q
HandleFollowupWith(Q) ==
  /\ \E query \in Q, llmOK \in BOOLEAN :
       /\ reply' = AsReply("handle_followup", FALSE, 0, query,
                           HandleFollowupResult(final_output, features,
                                                feature_labels, query, llmOK))
       /\ final_output' = FinalOutputAfterFollowup(final_output, features,
                                                   feature_labels, query)
  /\ UNCHANGED extraVars
  /\ UNCHANGED runVarsButOutput

HandleFollowup == HandleFollowupWith(RunQueries)

\* `if not orchestrator.final_output: raise HTTPException(status_code=400, ...)`
EndpointRejects(fo) == IsNone(fo)

\* POST /followup for the session of this run
ServerFollowup ==
  /\ mode = "stream"
  /\ \E query \in RunQueries, llmOK \in BOOLEAN :
       IF EndpointRejects(final_output)
       THEN /\ reply' = [NoReply EXCEPT
                           !.via = "POST /followup", !.raised = TRUE, !.status = 400,
                           !.answer = "No analysis results found for this session.",
                           !.query = query]
            /\ UNCHANGED final_output
       ELSE /\ reply' = AsReply("POST /followup", FALSE, 200, query,
                                HandleFollowupResult(final_output, features,
                                                     feature_labels, query, llmOK))
            /\ final_output' = FinalOutputAfterFollowup(final_output, features,
                                                        feature_labels, query)
  /\ UNCHANGED extraVars
  /\ UNCHANGED runVarsButOutput

(***************************************************************************)
(* One run with follow-ups arriving at any time.                           *)
(***************************************************************************)
Next ==
  \/ StartRun
  \/ ChunkAll
  \/ Index
  \/ ExtractFeatures
  \/ DiscoverProducts
  \/ AnalyzeProduct
  \/ HandleFollowup
  \/ ServerFollowup

Spec == Init /\ [][Next]_vars

TypeOK ==
  /\ stage \in Stages
  /\ mode \in {"sync", "stream"}
  /\ Len(results) <= Len(product_names)
  /\ Len(outcomes) = Len(results)


(***************************************************************************)
(* Follow-ups against a finished run: the run is Done with a cached result *)
(* whose entities carry dimension scores, and any follow-up text of        *)
(* FollowupQueries is asked, any number of times.                          *)
(***************************************************************************)
\* a dimension mapping with an optional score for each of two keys
MapOf(k1, a, k2, b) ==
  [k \in (IF IsNone(a) THEN {} ELSE {k1}) \cup (IF IsNone(b) THEN {} ELSE {k2}) |->
     IF k = k1 /\ ~IsNone(a) THEN Val(a) ELSE Val(b)]

\* the dimension mappings of the cached entities: the run's first dimension
\* absent, 0 or MaxScore, its second dimension absent or MaxScore
CachedFeatureMaps(feats) ==
  {MapOf(feats[1], a, feats[2], b) :
     a \in {None, Some(0), Some(MaxScore)}, b \in {None, Some(MaxScore)}}

\* what the service answered for a cached entity, but for its name
CachedBodies(feats) ==
  {[overall_score |-> Some(o), features |-> fm] :
     o \in {1, MaxScore}, fm \in CachedFeatureMaps(feats)}

\* the response for the entity product_name: the service wrote its name
CachedResponse(product_name, body) ==
  [kind |-> "json", name |-> <<product_name>>,
   overall_score |-> body.overall_score, features |-> body.features]

\* the calls of a run in which every one of n entities was analysed
CallsOfRun(m, n) ==
  [chunk_all |-> 1, index |-> 1, extract_features |-> 1, discover_products |-> 1,
   analyze_product |-> n, embed_index |-> 1, embed_query |-> n + 1,
   generate |-> n + 2, sleep |-> IF m = "sync" THEN n ELSE 0]

\* a session of the server: the run was made by the streaming pipeline
InitFollowup ==
  \E m \in {"stream"}, resp \in SchemaResponses \cup {SchemaFailure},
     n \in 1..MaxEntities :
    \E body \in [1..n -> CachedBodies(ExtractFeaturesResult(resp).features)] :
      LET rs == [i \in 1..n |-> Some(ParseProductAnalysis(CachedResponse(i, body[i])))]
      IN /\ mode = m
         /\ stage = "Done"
         /\ all_chunks = <<1>>
         /\ collection = {1}
         /\ features = ExtractFeaturesResult(resp).features
         /\ feature_labels = ExtractFeaturesResult(resp).feature_labels
         /\ product_names = [i \in 1..n |-> i]
         /\ results = rs
         /\ outcomes = [i \in 1..n |-> "ok"]
         /\ final_output = Some([products |-> FinalProducts(rs)])
         /\ calls = CallsOfRun(m, n)
         /\ terminal = [NoTerminal EXCEPT
                          !.kind = IF m = "sync" THEN "returned" ELSE "done",
                          !.products = FinalProducts(rs)]
         /\ escaped = {}
         /\ reply = NoReply
         /\ ExtraIdle

AskFollowup == HandleFollowupWith(FollowupQueries)

NextFollowup == AskFollowup

SpecFollowup == InitFollowup /\ [][NextFollowup]_vars


(***************************************************************************)
(* Properties of a run.                                                    *)
(***************************************************************************)
Products == Val(final_output).products

Score(p) == Val(p.overall_score)

\* the entities whose analysis is not None and whose overall_score is
\* present, truthy and positive
Retained ==
  {i \in 1..Len(results) :
     /\ ~IsNone(results[i])
     /\ ~IsNone(Val(results[i]).overall_score)
     /\ Score(Val(results[i])) > 0}

\* C1: when a run is Done, in either driver, the stored product list holds
\* exactly the entities with a non-None analysis and an overall_score > 0,
\* each with its analysis, sorted by overall_score descending, equal scores
\* in discovery order.
C1_DoneResultFilteredAndStablySorted ==
  stage = "Done" =>
    /\ ~IsNone(final_output)
    /\ Len(Products) = Cardinality(Retained)
    /\ \A a \in 1..Len(Products) :
         ~IsNone(Products[a].overall_score) /\ Score(Products[a]) > 0
    \* entity[a] is the discovery position of the a-th stored product
    /\ \E entity \in [1..Len(Products) -> Retained] :
         /\ \A a \in 1..Len(Products) : Products[a] = Val(results[entity[a]])
         /\ \A a, b \in 1..Len(Products) :
              a < b =>
                \/ Score(Products[a]) > Score(Products[b])
                \/ /\ Score(Products[a]) = Score(Products[b])
                   /\ entity[a] < entity[b]
    /\ terminal.products = Products

\* C1 witness: a Done run whose two retained entities have the same score
\* and differ in name, stored in discovery order
C1_Witness ==
  /\ stage = "Done"
  /\ Len(results) = 2
  /\ Len(Products) = 2
  /\ Score(Products[1]) = Score(Products[2])
  /\ Products[1] # Products[2]
  /\ Products[1] = Val(results[1])

StageOrder ==
  <<"Idle", "Segmenting", "Indexing", "SchemaDiscovery", "EntityDiscovery",
    "Analyzing", "Done">>

StageIndex(st) == CHOOSE i \in 1..Len(StageOrder) : StageOrder[i] = st

\* the stage whose component a call belongs to
CallStage ==
  [chunk_all |-> "Segmenting", index |-> "Indexing",
   extract_features |-> "SchemaDiscovery", discover_products |-> "EntityDiscovery",
   analyze_product |-> "Analyzing"]

C2_Step ==
  \* a stage is left for the next one in the order, for itself (the next
  \* entity), or for an early end of the run
  /\ stage' # stage =>
       \/ /\ stage' \in SeqToSet(StageOrder)
          /\ stage \in SeqToSet(StageOrder)
          /\ StageIndex(stage') = StageIndex(stage) + 1
       \/ stage' \in {"Aborted", "Failed"} /\ stage \in SeqToSet(StageOrder)
  \* a component is called only in its own stage, once per step
  /\ \A c \in DOMAIN CallStage :
       calls'[c] # calls[c] => stage = CallStage[c] /\ calls'[c] = calls[c] + 1
  \* entities are analysed one by one in discovery order
  /\ results' # results =>
       /\ stage = "Analyzing"
       /\ Len(results') = Len(results) + 1
       /\ SubSeq(results', 1, Len(results)) = results
       /\ calls'["analyze_product"] = Len(results')
  \* the result is stored by the step that analyses the last entity
  /\ (final_output' # final_output /\ stage' = "Done") =>
       /\ stage = "Analyzing"
       /\ Len(results') = Len(product_names)
       /\ Len(results) = Len(product_names) - 1

C2_Inv ==
  \* no stage is repeated
  /\ \A c \in {"chunk_all", "index", "extract_features", "discover_products"} :
       calls[c] <= 1
  \* no stage is skipped
  /\ stage \in {"SchemaDiscovery", "EntityDiscovery", "Analyzing", "Done"} =>
       calls["chunk_all"] = 1 /\ calls["index"] = 1
  /\ stage \in {"EntityDiscovery", "Analyzing", "Done"} => calls["extract_features"] = 1
  /\ stage \in {"Analyzing", "Done"} => calls["discover_products"] = 1
  /\ stage = "Analyzing" =>
       calls["analyze_product"] = Len(results) /\ Len(results) < Len(product_names)
  /\ stage = "Done" =>
       /\ calls["analyze_product"] = Len(product_names)
       /\ Len(results) = Len(product_names)
       /\ ~IsNone(final_output)
  \* no result is stored while entities remain to be analysed
  /\ stage \in {"Idle", "Segmenting", "Indexing", "SchemaDiscovery",
                "EntityDiscovery", "Analyzing"} => IsNone(final_output)

\* C2: in every run of either driver the stages follow one another in the
\* order Segmenting, Indexing, SchemaDiscovery, EntityDiscovery, Analyzing
\* (entity 1..n in discovery order), Done; each stage's component is called
\* in its own stage only, none is skipped or repeated, and the result is
\* stored only by the step that analyses the last entity.
C2_StagesInStrictOrder == [](C2_Inv) /\ [][C2_Step]_vars

\* C2 witness: a run that went through every stage and analysed two entities
C2_Witness ==
  /\ stage = "Done"
  /\ Len(product_names) = 2
  /\ calls["analyze_product"] = 2
  /\ mode = "stream"

\* C3: when the Segmenter produced no unit, the run makes no text-generation
\* call and no query-embedding call and never enters SchemaDiscovery or
\* EntityDiscovery, in either driver.
C3_NoUnitsNoCalls ==
  (calls["chunk_all"] = 1 /\ all_chunks = <<>>) =>
    /\ stage \in {"Indexing", "Aborted"}
    /\ calls["generate"] = 0
    /\ calls["embed_query"] = 0

\* discovery has returned (not raised) an empty list
EmptyDiscovery ==
  /\ calls["discover_products"] = 1
  /\ stage # "EntityDiscovery"
  /\ escaped = {}
  /\ product_names = <<>>

GenerationFailures == {"error", "unparsable"}

RemoveAt(seq, i) == SubSeq(seq, 1, i - 1) \o SubSeq(seq, i + 1, Len(seq))

C6_EmbeddingFailureContained ==
  /\ escaped \cap {"Embedder.index", "Analyzer._discover_products",
                   "Analyzer._analyze_product", "AnalysisOrchestrator.run"} = {}
  /\ stage # "Failed"

\* C7: a follow-up made while no Done result is stored is answered with the
\* 'no analysis available' value: the handler does not raise, calls no
\* collaborator and changes no state of the run.
C7_Step ==
  (reply' # reply /\ stage # "Done") =>
    /\ ~reply'.raised
    /\ reply'.response_type = "text"
    /\ reply'.answer = NoAnalysisAnswer.answer
    /\ ~reply'.generated
    /\ UNCHANGED runVars

C7_FollowupWithoutResultReturnsValue == [][C7_Step]_vars


(***************************************************************************)
(* Properties of follow-ups.                                               *)
(***************************************************************************)
\* text contains word when case is ignored on both sides
ContainsIgnoringCase(word, text) == StrIn(StrLower(word), StrLower(text))

\* some word longer than two characters, of the key split on underscores
\* or of its label, occurs in the text, case ignored
NamesDimension(text, labels, k) ==
  LET words == StrSplit(ReplaceUnderscore(k)) \o StrSplit(LabelOf(labels, k))
  IN \E i \in 1..Len(words) :
       Len(words[i]) > 2 /\ ContainsIgnoringCase(words[i], text)

\* the follow-up texts that name each dimension of each schema
NamedBy ==
  [a \in UNION {FollowupQueries \X {sc.feature_labels} \X SeqToSet(sc.features) :
                  sc \in AnalyzerSchemas} |->
     NamesDimension(a[1], a[2], a[3])]

\* the latest reply answers a follow-up on a non-empty cached result
Answered == reply.via # "none" /\ ~reply.raised /\ ~IsNone(final_output) /\ Products # <<>>

\* C8: with a non-empty cached result, a follow-up gets a ranked view, and
\* no generation call is made, exactly when its text contains, case ignored,
\* a word longer than two characters of some dimension key or label;
\* otherwise it gets a free-text answer.
C8_RankedViewIffDimensionNamed ==
  Answered =>
    IF \E i \in 1..Len(features) : NamedBy[<<reply.query, feature_labels, features[i]>>]
    THEN reply.response_type = "products" /\ ~reply.generated
    ELSE reply.response_type = "text"

\* the ranking score of the a-th cached entity on dimension k
RankingScore(a, k) ==
  IF k \in DOMAIN Products[a].features THEN Products[a].features[k] ELSE 0

\* the keys the handler matched for the latest follow-up
MatchedNow == SeqToSet(Detected[<<reply.query, features, feature_labels>>])

\* the orders in which n entities can be listed
Orders(n) == {f \in [1..n -> 1..n] : \A a, b \in 1..n : a # b => f[a] # f[b]}

\* C9: a ranked view lists exactly the entities of the cached result,
\* ordered by descending score on the earliest matching key in the run's
\* dimension order; an entity without that dimension ranks as 0; equal
\* ranking scores keep the cached order.
C9_RankedViewOrder ==
  (Answered /\ reply.response_type = "products") =>
    /\ \E j \in 1..Len(features) :
         /\ features[j] \in MatchedNow
         /\ \A i \in 1..(j - 1) : features[i] \notin MatchedNow
         /\ reply.primary = features[j]
    /\ Len(reply.products) = Len(Products)
    \* cached[b] is the cached position of the b-th listed entity
    /\ \E cached \in Orders(Len(Products)) :
         /\ \A b \in 1..Len(Products) :
              /\ reply.products[b].name = Products[cached[b]].name
              /\ reply.products[b].overall_score = Products[cached[b]].overall_score
              /\ \A k \in DOMAIN reply.products[b].features :
                   /\ k \in DOMAIN Products[cached[b]].features
                   /\ reply.products[b].features[k] = Products[cached[b]].features[k]
         /\ \A b, c \in 1..Len(Products) :
              b < c =>
                \/ RankingScore(cached[b], reply.primary) > RankingScore(cached[c], reply.primary)
                \/ /\ RankingScore(cached[b], reply.primary) = RankingScore(cached[c], reply.primary)
                   /\ cached[b] < cached[c]

\* C9 witness: two keys matched, the first in dimension order ranks; the
\* entity cached first lacks that dimension and is listed after the entity
\* cached second, which scores on it
C9_Witness ==
  /\ Answered
  /\ reply.response_type = "products"
  /\ Len(reply.matched) = 2
  /\ Len(Products) = 2
  /\ reply.primary \notin DOMAIN Products[1].features
  /\ RankingScore(2, reply.primary) > 0
  /\ reply.products[1].features # reply.products[2].features
  /\ reply.products[2].features = <<>>

C10_Step ==
  /\ UNCHANGED <<final_output, features, feature_labels>>
  /\ \A c \in DOMAIN CallStage : calls'[c] = calls[c]
  /\ stage' = stage

\* C10: after Done, a follow-up of either kind, any number of times in any
\* order, leaves the stored result as it was (entity order, overall scores,
\* dimension mappings), leaves the dimension keys and labels as they were,
\* and calls none of chunk_all, index, _extract_features,
\* _discover_products, _analyze_product.
C10_FollowupsChangeNothing ==
  [](final_output = Some([products |-> FinalProducts(results)])) /\ [][C10_Step]_vars

\* C10 witness: a ranked view was returned in another order than the cached
\* one, with an entity that lacks the ranking dimension, after a free-text
\* answer or not
C10_Witness ==
  /\ Answered
  /\ reply.response_type = "products"
  /\ Len(Products) = 2
  /\ reply.primary \notin DOMAIN Products[1].features
  /\ RankingScore(2, reply.primary) > 0
  /\ reply.products[1].overall_score = Products[2].overall_score
  /\ Products = FinalProducts(results)


(***************************************************************************)
(* Chunker.  A text is the sequence of its words; a word of a document is  *)
(* its position in the document (1..L), so that str.split and " ".join     *)
(* are the passage between a text and its word list.  A transcript segment *)
(* is a record [n, start, timestamp]: the number of words of its text, and *)
(* its start and timestamp values; the text of a timed unit is the         *)
(* sequence of the positions of the segments it joins.                     *)
(***************************************************************************)
\* most words of a plain-text document
MaxWords == 5
\* largest chunk_size
MaxWindow == 4
\* most transcript segments of a video
MaxSegments == 3
\* most words of one transcript segment
MaxSegWords == 2

Max(a, b) == IF a > b THEN a ELSE b

\* words[a:b] with 0-based, end-exclusive Python indices
Slice(words, a, b) == SubSeq(words, a + 1, Min(b, Len(words)))

\* the loop of _split_into_windows from `start` on
RECURSIVE WindowsFrom(_, _, _, _)
WindowsFrom(words, start, W, O) ==
  IF start < Len(words)
  THEN <<Slice(words, start, start + W)>> \o WindowsFrom(words, start + (W - O), W, O)
  ELSE <<>>

\* a plausible slip: step = chunk_size + overlap
SplitIntoWindowsWideStep(words, W, O) == WindowsFrom(words, 0, W, 0 - O)

\* a plausible slip: the step is the whole window
SplitIntoWindowsNoOverlap(words, W, O) == WindowsFrom(words, 0, W, 0)

\* Chunker._split_into_windows
SplitIntoWindows(words, W, O) == WindowsFrom(words, 0, W, O)

\* hashlib.md5(url.encode()).hexdigest()[:8]: a digest cut to 32 bits, so
\* that different URLs can have the same one (URLs 1 and 3 here)
Urls == 1..3
UrlHash(url) == IF url = 2 THEN "h2" ELSE "h1"

VideoIds == {"vA", "vB"}

\* a plausible slip: the sequence index goes on from the units of earlier calls
FirstIndexContinuing(earlier) == Len(earlier)

\* enumerate(raw_chunks) and `chunk_index = 0`: the sequence index restarts
\* at 0 in every call, whatever was produced before
FirstIndex(earlier) == 0

\* Chunker._chunk_article
ChunkArticle(article, W, O, base) ==
  IF article.content = <<>>
  THEN <<>>
  ELSE LET raw_chunks == SplitIntoWindows(article.content, W, O)
       IN [i \in 1..Len(raw_chunks) |->
             [text |-> raw_chunks[i],
              source_type |-> "article",
              url |-> [article |-> article.url],
              chunk_id |-> <<UrlHash(article.url), base + i - 1>>,
              video_id |-> None,
              timestamp |-> None,
              start_seconds |-> None]]

\* Chunker._chunk_video_plain
ChunkVideoPlain(video, W, O, base) ==
  LET raw_chunks == SplitIntoWindows(video.transcript, W, O)
  IN [i \in 1..Len(raw_chunks) |->
        [text |-> raw_chunks[i],
         source_type |-> "youtube",
         url |-> [video |-> video.video_id],
         chunk_id |-> <<video.video_id, base + i - 1>>,
         video_id |-> Some(video.video_id),
         timestamp |-> None,
         start_seconds |-> None]]

\* the inner loop of _chunk_video_with_timestamps: segments are taken from
\* index j on until chunk_size words are counted; the index after the last
\* one taken (0-based)
RECURSIVE AccumulateEnd(_, _, _, _)
AccumulateEnd(segs, j, word_count, W) ==
  IF j < Len(segs) /\ word_count < W
  THEN AccumulateEnd(segs, j + 1, word_count + segs[j + 1].n, W)
  ELSE j

\* the backtrack loop: the value of `backtrack` when it ends
RECURSIVE BacktrackFrom(_, _, _, _, _)
BacktrackFrom(segs, backtrack, overlap_words, i, O) ==
  IF backtrack > i /\ overlap_words < O
  THEN BacktrackFrom(segs, backtrack - 1, overlap_words + segs[backtrack + 1].n, i, O)
  ELSE backtrack

\* a plausible slip: the start pointer is set to `backtrack` alone
NextStartBacktrackOnly(segs, i, j, O) == BacktrackFrom(segs, j - 1, 0, i, O)

\* i = max(backtrack, i + 1)
NextStart(segs, i, j, O) == Max(BacktrackFrom(segs, j - 1, 0, i, O), i + 1)

\* the unit built by one iteration that starts at segment index i and
\* took the segments up to index j (0-based, j exclusive)
TimedChunk(video, i, j, chunk_index) ==
  LET first_seg == video.transcript_segments[i + 1]
  IN [text |-> [k \in 1..(j - i) |-> i + k],
      source_type |-> "youtube",
      url |-> [video |-> video.video_id, t |-> first_seg.start],
      chunk_id |-> <<video.video_id, chunk_index>>,
      video_id |-> Some(video.video_id),
      timestamp |-> Some(first_seg.timestamp),
      start_seconds |-> Some(first_seg.start)]

\* the outer loop of _chunk_video_with_timestamps from start pointer i on
RECURSIVE TimedChunksFrom(_, _, _, _, _)
TimedChunksFrom(video, i, chunk_index, W, O) ==
  LET segs == video.transcript_segments
      j == AccumulateEnd(segs, i, 0, W)
  IN IF i < Len(segs) /\ j > i
     THEN <<TimedChunk(video, i, j, chunk_index)>>
          \o TimedChunksFrom(video, NextStart(segs, i, j, O), chunk_index + 1, W, O)
     ELSE <<>>

\* Chunker._chunk_video_with_timestamps
ChunkVideoWithTimestamps(video, W, O, base) == TimedChunksFrom(video, 0, base, W, O)

\* Chunker._chunk_video
ChunkVideo(video, W, O, base) ==
  IF video.transcript = <<>>
  THEN <<>>
  ELSE IF video.transcript_segments # <<>>
  THEN ChunkVideoWithTimestamps(video, W, O, base)
  ELSE ChunkVideoPlain(video, W, O, base)

\* `for article in articles: all_chunks.extend(self._chunk_article(article))`
\* over articles[1..n]
RECURSIVE ArticleUnits(_, _, _, _, _)
ArticleUnits(arts, n, W, O, base) ==
  IF n = 0 THEN <<>>
  ELSE ArticleUnits(arts, n - 1, W, O, base) \o ChunkArticle(arts[n], W, O, base)

\* `for video in videos: all_chunks.extend(self._chunk_video(video))`
\* over videos[1..n]
RECURSIVE VideoUnits(_, _, _, _, _)
VideoUnits(vids, n, W, O, base) ==
  IF n = 0 THEN <<>>
  ELSE VideoUnits(vids, n - 1, W, O, base) \o ChunkVideo(vids[n], W, O, base)

\* Chunker.chunk_all; `earlier` is what the calls before this one returned
ChunkAllUnits(arts, vids, W, O, earlier) ==
  ArticleUnits(arts, Len(arts), W, O, FirstIndex(earlier))
  \o VideoUnits(vids, Len(vids), W, O, FirstIndex(earlier))

(***************************************************************************)
(* A Chunker called several times on the same documents.                   *)
(***************************************************************************)
\* most chunk_all calls followed on one Chunker
MaxCalls == 2

\* a text of L words
Words(L) == [i \in 1..L |-> i]

\* the sequences over S of length lo..hi
SeqsOf(S, lo, hi) == UNION {[1..n -> S] : n \in lo..hi}

ArticleOf(url, L) == [url |-> url, content |-> Words(L)]

\* the segments whose texts have counts[k] words; segment k starts at
\* k - 1 seconds and is stamped k
SegmentsOf(counts) ==
  [k \in 1..Len(counts) |-> [n |-> counts[k], start |-> k - 1, timestamp |-> k]]

VideoOf(id, L, counts) ==
  [video_id |-> id, transcript |-> Words(L), transcript_segments |-> SegmentsOf(counts)]

\* one article of any length
SingleArticles ==
  {[articles |-> <<ArticleOf(1, L)>>, videos |-> <<>>] : L \in 0..MaxWords}

\* one video: a plain transcript of any length, or timed segments of any
\* shape with or without a transcript
SingleVideos ==
  {[articles |-> <<>>, videos |-> <<VideoOf("vA", L, <<>>)>>] : L \in 0..MaxWords}
  \cup {[articles |-> <<>>, videos |-> <<VideoOf("vA", L, counts)>>] :
          L \in {0, 1}, counts \in SeqsOf(0..MaxSegWords, 1, MaxSegments)}

\* up to two short articles and up to two short videos, of any identity
MixedDocuments ==
  {[articles |-> arts, videos |-> vids] :
     arts \in SeqsOf({ArticleOf(u, 2) : u \in Urls}, 0, 2),
     vids \in SeqsOf({VideoOf(id, 2, counts) : id \in VideoIds, counts \in {<<>>, <<1, 1>>}},
                     0, 2)}

ChunkerInputs == SingleArticles \cup SingleVideos \cup MixedDocuments

\* Chunker(chunk_size, overlap) with 0 <= overlap < chunk_size, and the
\* documents of one search
InitChunker ==
  /\ PipelineIdle
  /\ chunk_size \in 1..MaxWindow
  /\ overlap \in 0..(chunk_size - 1)
  /\ \E docs \in ChunkerInputs :
       /\ articles = docs.articles
       /\ videos = docs.videos
  /\ produced = <<>>
  /\ TimedIdle
  /\ IndexIdle
  /\ SessionsIdle
  /\ LaterIdle

\* the units of all the calls in ss, in order
RECURSIVE Flat(_)
Flat(ss) == IF ss = <<>> THEN <<>> ELSE Head(ss) \o Flat(Tail(ss))

\* one call chunker.chunk_all(articles, videos)
ChunkAllCall ==
  /\ Len(produced) < MaxCalls
  /\ produced' = Append(produced,
                        ChunkAllUnits(articles, videos, chunk_size, overlap,
                                      Flat(produced)))
  /\ UNCHANGED <<chunk_size, overlap, articles, videos>>
  /\ UNCHANGED <<pipelineVars, timedVars, indexVars, sessionVars, laterVars>>

NextChunker == ChunkAllCall

SpecChunker == InitChunker /\ [][NextChunker]_vars

(***************************************************************************)
(* One call of Chunker._chunk_video_with_timestamps, iteration by          *)
(* iteration of its outer loop, for any chunk_size >= 1 and any overlap.   *)
(***************************************************************************)
\* the iterations followed in one call
MaxIterations == MaxSegments + 2

InitTimed ==
  /\ PipelineIdle
  /\ chunk_size \in 1..MaxWindow
  /\ overlap \in 0..(MaxWindow + 1)
  /\ articles = <<>>
  /\ videos = <<>>
  /\ produced = <<>>
  /\ \E counts \in SeqsOf(0..MaxSegWords, 0, MaxSegments) :
       timed_video = VideoOf("vA", 1, counts)
  /\ seg_i = 0
  /\ seg_index = 0
  /\ seg_chunks = <<>>
  /\ seg_pc = "loop"
  /\ IndexIdle
  /\ SessionsIdle
  /\ LaterIdle

\* one iteration of `while i < len(segments)`: a unit is built and the
\* start pointer moved, or the loop is left because no segment was taken
TimedIteration ==
  /\ seg_pc = "loop"
  /\ seg_index < MaxIterations
  /\ seg_i < Len(timed_video.transcript_segments)
  /\ LET segs == timed_video.transcript_segments
         j == AccumulateEnd(segs, seg_i, 0, chunk_size)
     IN IF j = seg_i
        THEN /\ seg_pc' = "returned"
             /\ UNCHANGED <<seg_i, seg_index, seg_chunks>>
        ELSE /\ seg_chunks' = Append(seg_chunks, TimedChunk(timed_video, seg_i, j, seg_index))
             /\ seg_i' = NextStart(segs, seg_i, j, overlap)
             /\ seg_index' = seg_index + 1
             /\ UNCHANGED seg_pc
  /\ UNCHANGED <<timed_video, chunkerVars, pipelineVars, indexVars, sessionVars, laterVars>>

\* the test of the outer while fails: `return chunks`
TimedReturn ==
  /\ seg_pc = "loop"
  /\ seg_i >= Len(timed_video.transcript_segments)
  /\ seg_pc' = "returned"
  /\ UNCHANGED <<timed_video, seg_i, seg_index, seg_chunks, chunkerVars, pipelineVars,
                 indexVars, sessionVars, laterVars>>

NextTimed == TimedIteration \/ TimedReturn

\* the call is a sequential loop that keeps running until it returns
SpecTimed == InitTimed /\ [][NextTimed]_vars /\ WF_vars(NextTimed)

(***************************************************************************)
(* One Embedder: index (build) and search (query) on its collection.       *)
(* The collection is a chromadb collection; no version of chromadb is      *)
(* fixed by the repository, so where versions differ (an id that is        *)
(* already stored, n_results above the number of entries) each outcome a   *)
(* version produces is possible.  The embeddings come from an external     *)
(* service: the call may raise, and the nearest entries may be any.        *)
(***************************************************************************)
MaxBuildUnits == 2
MaxIndexCalls == 3
MaxTopK == 2

\* the chunks handed to index: two share chunk_id "a" with different text
IndexChunks ==
  { [chunk_id |-> "a", text |-> "t1", video_id |-> None, start_seconds |-> None],
    [chunk_id |-> "a", text |-> "t2", video_id |-> None, start_seconds |-> None],
    [chunk_id |-> "b", text |-> "t2", video_id |-> Some("vA"), start_seconds |-> Some(0)] }

IndexInputs == SeqsOf(IndexChunks, 0, MaxBuildUnits)

\* Embedder._build_metadata: None becomes "" or -1
BuildMetadata(chunk) ==
  [chunk_id |-> chunk.chunk_id,
   video_id |-> IF chunk.video_id = None THEN "" ELSE chunk.video_id[1],
   start_seconds |-> IF chunk.start_seconds = None THEN 0 - 1 ELSE chunk.start_seconds[1]]

\* the entry collection.add stores for a chunk
EntryOf(chunk) ==
  [id |-> chunk.chunk_id, document |-> chunk.text, metadata |-> BuildMetadata(chunk)]

\* Embedder._parse_results, for one (document, metadata) pair
ParseResult(entry) ==
  [chunk_id |-> entry.metadata.chunk_id,
   text |-> entry.document,
   video_id |-> IF entry.metadata.video_id = "" THEN None ELSE Some(entry.metadata.video_id),
   start_seconds |-> IF entry.metadata.start_seconds = 0 - 1
                     THEN None ELSE Some(entry.metadata.start_seconds)]

StoredIds(coll) == {coll[k].id : k \in 1..Len(coll)}

\* a version that tolerates known ids adds the entries whose id is new
RECURSIVE AddNew(_, _)
AddNew(coll, chunks) ==
  IF chunks = <<>> THEN coll
  ELSE IF chunks[1].chunk_id \in StoredIds(coll)
       THEN AddNew(coll, Tail(chunks))
       ELSE AddNew(Append(coll, EntryOf(chunks[1])), Tail(chunks))

\* collection.add: appends to what the collection holds
AddAccumulating(coll, chunks) == AddNew(coll, chunks)

InitIndex ==
  /\ PipelineIdle
  /\ ChunkerIdle
  /\ TimedIdle
  /\ IndexIdle
  /\ SessionsIdle
  /\ LaterIdle

\* Embedder.index(chunks)
IndexCall ==
  /\ index_calls < MaxIndexCalls
  /\ index_calls' = index_calls + 1
  /\ \E chunks \in IndexInputs :
       IF chunks = <<>>
       THEN UNCHANGED <<stored, last_build>>
       ELSE \/ \* self._embed raises, or collection.add rejects a known id
               /\ UNCHANGED <<stored, last_build>>
            \/ \* collection.add returns
               /\ stored' = AddAccumulating(stored, chunks)
               /\ last_build' = chunks
  /\ UNCHANGED <<search_result, pipelineVars, chunkerVars, timedVars, sessionVars, laterVars>>

\* the orders in which n of the entries of coll can be returned
NearestEntries(coll, n) ==
  {r \in SeqsOf({coll[k] : k \in 1..Len(coll)}, n, n) :
     \A a, b \in 1..n : a # b => r[a] # r[b]}

\* Embedder.search(query, top_k), source_type None
SearchCall ==
  /\ \E top_k \in 1..MaxTopK :
       \/ \* self._embed raises
          search_result' = Some([raised |-> TRUE, top_k |-> top_k, chunks |-> <<>>])
       \/ \* a version that rejects n_results above the number of entries
          /\ top_k > Len(stored)
          /\ search_result' = Some([raised |-> TRUE, top_k |-> top_k, chunks |-> <<>>])
       \/ \* collection.query returns the nearest entries
          \E r \in NearestEntries(stored, IF top_k < Len(stored)
                                               THEN top_k ELSE Len(stored)) :
            search_result' = Some([raised |-> FALSE, top_k |-> top_k,
                                   chunks |-> [k \in 1..Len(r) |-> ParseResult(r[k])]])
  /\ UNCHANGED <<stored, last_build, index_calls, pipelineVars, chunkerVars, timedVars,
                 sessionVars, laterVars>>

NextIndex == IndexCall \/ SearchCall

SpecIndex == InitIndex /\ [][NextIndex]_vars

(***************************************************************************)
(* The SessionStore: /search creates a session and streams its run,        *)
(* /followup looks the session up, DELETE /session removes it.  Each       *)
(* orchestrator makes its own Embedder, whose __init__ makes an in-memory  *)
(* chromadb client and creates the collection "chunks" in it.  Whether     *)
(* the in-memory clients of one process share one store depends on the     *)
(* version of chromadb, which the repository does not fix: both are        *)
(* possible, and the same one holds for the whole life of the process.     *)
(***************************************************************************)
\* the values uuid4 can produce
SessionIds == {"s1", "s2"}

\* the store the client of the o-th orchestrator works on
ClientStore(o) == IF shared_system THEN 0 ELSE o

\* create_collection that hands out the collection that exists already
CreateCollectionGetOrCreate(existing, store) == Some(store)

\* chroma_client.create_collection(name="chunks"): raises (None) when the
\* store holds a collection of that name
CreateCollection(existing, store) ==
  IF store \in existing THEN None ELSE Some(store)

\* the chunks the run of the o-th orchestrator hands to index
ChunksOfRun(o, n) == {[built_by |-> o, chunk_id |-> k] : k \in 1..n}

InitSessions ==
  /\ PipelineIdle
  /\ ChunkerIdle
  /\ TimedIdle
  /\ IndexIdle
  /\ shared_system \in BOOLEAN
  /\ SessionsEmpty
  /\ LaterIdle

\* server.search, step 3: session_store.create_session()
CreateSession ==
  /\ \E session_id \in SessionIds \ used_ids :
       LET o == Len(orchestrators) + 1
           made == CreateCollection(DOMAIN chroma, ClientStore(o))
       IN /\ used_ids' = used_ids \cup {session_id}
          /\ IF made = None
             THEN \* Embedder.__init__ raises: nothing is registered
                  UNCHANGED <<sessions, orchestrators, chroma>>
             ELSE /\ chroma' = IF made[1] \in DOMAIN chroma
                               THEN chroma ELSE (made[1] :> {}) @@ chroma
                  /\ orchestrators' = Append(orchestrators,
                       [created_for |-> session_id, store |-> made[1],
                        stage |-> "created", retrieved |-> {},
                        final_output |-> None])
                  /\ sessions' = (session_id :> o) @@ sessions
  /\ UNCHANGED <<shared_system, lookups, pipelineVars, chunkerVars, timedVars, indexVars,
                 laterVars>>

\* progress_stream: chunk_all and orchestrator.embedder.index(all_chunks)
StreamIndex ==
  /\ \E o \in 1..Len(orchestrators) :
       /\ orchestrators[o].stage = "created"
       /\ \/ \E n \in 0..MaxBuildUnits :
               /\ chroma' = [chroma EXCEPT ![orchestrators[o].store] =
                                              @ \cup ChunksOfRun(o, n)]
               /\ orchestrators' = [orchestrators EXCEPT ![o].stage = "indexed"]
          \/ \* an exception ends the stream
             /\ orchestrators' = [orchestrators EXCEPT ![o].stage = "failed"]
             /\ UNCHANGED chroma
  /\ UNCHANGED <<shared_system, sessions, used_ids, lookups,
                 pipelineVars, chunkerVars, timedVars, indexVars, laterVars>>

\* progress_stream: the searches and generation calls of the analysis,
\* then `orchestrator.final_output = final_output`
StreamAnalyze ==
  /\ \E o \in 1..Len(orchestrators) :
       /\ orchestrators[o].stage = "indexed"
       /\ \/ \E found \in SUBSET chroma[orchestrators[o].store] :
               orchestrators' = [orchestrators EXCEPT
                 ![o].stage = "done",
                 ![o].retrieved = found,
                 ![o].final_output = Some([run_of |-> o, evidence |-> found])]
          \/ \* no product found, or an exception: the stream ends
             orchestrators' = [orchestrators EXCEPT ![o].stage = "failed"]
  /\ UNCHANGED <<shared_system, sessions, used_ids, chroma, lookups,
                 pipelineVars, chunkerVars, timedVars, indexVars, laterVars>>

\* server.followup
SessionFollowup ==
  /\ \E session_id \in used_ids :
       lookups' = (session_id :>
         IF session_id \notin DOMAIN sessions
         THEN [status |-> 404, orchestrator |-> 0, answered_from |-> None]
         ELSE IF orchestrators[sessions[session_id]].final_output = None
         THEN [status |-> 400, orchestrator |-> sessions[session_id],
               answered_from |-> None]
         ELSE [status |-> 200, orchestrator |-> sessions[session_id],
               answered_from |-> orchestrators[sessions[session_id]].final_output])
         @@ lookups
  /\ UNCHANGED <<shared_system, sessions, used_ids, orchestrators, chroma,
                 pipelineVars, chunkerVars, timedVars, indexVars, laterVars>>

\* server.delete_session
DeleteSession ==
  /\ \E session_id \in DOMAIN sessions :
       sessions' = [x \in DOMAIN sessions \ {session_id} |-> sessions[x]]
  /\ UNCHANGED <<shared_system, used_ids, orchestrators, chroma, lookups,
                 pipelineVars, chunkerVars, timedVars, indexVars, laterVars>>

NextSessions ==
  \/ CreateSession
  \/ StreamIndex
  \/ StreamAnalyze
  \/ SessionFollowup
  \/ DeleteSession

SpecSessions == InitSessions /\ [][NextSessions]_vars

(***************************************************************************)
(* Properties of the Chunker.                                              *)
(***************************************************************************)
\* chunk_all has returned; Units is what its first call returned
Called == produced # <<>>
Units == produced[1]

\* the input is one plain-text document: an article, or a video that has a
\* transcript and no segments
LoneArticle == Len(articles) = 1 /\ videos = <<>>
LonePlainVideo ==
  articles = <<>> /\ Len(videos) = 1 /\ videos[1].transcript_segments = <<>>
LonePlain == LoneArticle \/ LonePlainVideo
LoneWords == IF LoneArticle THEN articles[1].content ELSE videos[1].transcript

\* ceil(a / b) for b > 0
CeilDiv(a, b) == (a + b - 1) \div b

\* the positions of the words of unit n
PositionsOf(n) == SeqToSet(Units[n].text)

\* C12: a plain-text document of L >= 1 words, segmented with window W and
\* overlap O, gives ceil((L - O) / (W - O)) units when L > O, and 1 unit
\* otherwise.
C12_UnitCountFormula ==
  (Called /\ LonePlain /\ Len(LoneWords) >= 1) =>
    Len(Units) = IF Len(LoneWords) > overlap
                 THEN CeilDiv(Len(LoneWords) - overlap, chunk_size - overlap)
                 ELSE 1

\* C13: a non-empty plain-text document of fewer than W words gives exactly
\* one unit, which holds all its words in order; an empty document gives no
\* unit.
C13_ShortDocumentOneUnit ==
  (Called /\ LonePlain) =>
    /\ Len(LoneWords) = 0 => Units = <<>>
    /\ (1 <= Len(LoneWords) /\ Len(LoneWords) < chunk_size) =>
         /\ Len(Units) = 1
         /\ Units[1].text = LoneWords

\* the input is one video with a transcript and timed segments
LoneTimedVideo ==
  /\ articles = <<>>
  /\ Len(videos) = 1
  /\ videos[1].transcript # <<>>
  /\ videos[1].transcript_segments # <<>>

\* every word of the plain-text document is in a unit
EveryWordKept ==
  \A p \in 1..Len(LoneWords) : \E n \in 1..Len(Units) : p \in PositionsOf(n)

\* every segment of the timed video is in a unit
EverySegmentKept ==
  \A k \in 1..Len(videos[1].transcript_segments) :
    \E n \in 1..Len(Units) : k \in PositionsOf(n)

\* the first and the last segment of timed unit n
FirstSeg(n) == Units[n].text[1]
LastSeg(n) == Units[n].text[Len(Units[n].text)]

\* C14 as claimed: with 1 <= O < W no word and no segment is lost, and every
\* timed unit starts at or before the last segment of the unit before it.
C14_NoContentLostStartsWithinPrevious ==
  (Called /\ overlap >= 1) =>
    /\ LonePlain => EveryWordKept
    /\ LoneTimedVideo =>
         /\ EverySegmentKept
         /\ \A n \in 1..(Len(Units) - 1) : FirstSeg(n + 1) <= LastSeg(n)

\* C14 amended: no word and no segment is lost; the first unit starts at
\* the first word or segment, the last unit ends at the last one, and every
\* timed unit is a run of consecutive segments that starts no later than
\* the segment right after the last segment of the unit before it (right
\* after it exactly when that unit is a single segment).
C14_NoContentLost ==
  Called =>
    /\ LonePlain => EveryWordKept
    /\ LoneTimedVideo =>
         /\ EverySegmentKept
         /\ FirstSeg(1) = 1
         /\ LastSeg(Len(Units)) = Len(videos[1].transcript_segments)
         /\ \A n \in 1..Len(Units) :
              \A k \in 1..Len(Units[n].text) : Units[n].text[k] = FirstSeg(n) + k - 1
         /\ \A n \in 1..(Len(Units) - 1) :
              /\ FirstSeg(n + 1) <= LastSeg(n) + 1
              /\ FirstSeg(n + 1) = LastSeg(n) + 1 <=> Len(Units[n].text) = 1

\* C14 witness: a timed video of MaxSegments segments gave several units,
\* one of them a single segment followed by a unit that starts right after
\* it, and another overlapping the unit before it
C14_Witness ==
  /\ Called
  /\ LoneTimedVideo
  /\ overlap >= 1
  /\ Len(videos[1].transcript_segments) = MaxSegments
  /\ \E n \in 1..(Len(Units) - 1) : FirstSeg(n + 1) = LastSeg(n) + 1
  /\ \E n \in 1..(Len(Units) - 1) : FirstSeg(n + 1) <= LastSeg(n)

\* the units that hold word position p
UnitsHolding(p) == {n \in 1..Len(Units) : p \in PositionsOf(n)}

\* the last O words of a unit that is followed by another unit
TailOfFollowedUnits ==
  UNION {{Units[n].text[k] : k \in Max(1, Len(Units[n].text) - overlap + 1)..Len(Units[n].text)} :
           n \in 1..(Len(Units) - 1)}

\* the last O places of a window of W places that is followed by another
\* window, as far as the document reaches: window n covers the places
\* (n - 1)(W - O) + 1 .. (n - 1)(W - O) + W
LastPlacesOfFollowedWindows ==
  UNION {{p \in 1..Len(LoneWords) :
            /\ p > (n - 1) * (chunk_size - overlap) + chunk_size - overlap
            /\ p <= (n - 1) * (chunk_size - overlap) + chunk_size} :
           n \in 1..(Len(Units) - 1)}

C16_UnitIdsDistinct ==
  Called =>
    \A a, b \in 1..Len(Units) : a # b => Units[a].chunk_id # Units[b].chunk_id

\* C17: on every unit video_id, timestamp and start_seconds are all present
\* or all absent, and present only on units of source type youtube.
C17_ProvenanceAllOrNone ==
  Called =>
    \A n \in 1..Len(Units) :
      /\ IsNone(Units[n].video_id) = IsNone(Units[n].timestamp)
      /\ IsNone(Units[n].timestamp) = IsNone(Units[n].start_seconds)
      /\ ~IsNone(Units[n].video_id) => Units[n].source_type = "youtube"

C19_Step ==
  seg_index' # seg_index =>
    /\ seg_i' >= seg_i + 1
    /\ seg_index' = seg_index + 1
    /\ Len(seg_chunks') = Len(seg_chunks) + 1

C19_Inv ==
  /\ Len(seg_chunks) = seg_index
  /\ Len(seg_chunks) <= seg_i
  /\ Len(seg_chunks) <= Len(timed_video.transcript_segments)

\* C19: for every finite segment list and every W >= 1 and overlap, also
\* when one segment has more than O or more than W words, every iteration
\* moves the start pointer forward by at least one segment, the call
\* returns, and it returns at most as many units as there are segments.
C19_TimedLoopTerminates ==
  /\ [][C19_Step]_vars
  /\ []C19_Inv
  /\ <>(seg_pc = "returned")

\* C19 witness: the call returned one unit per segment for MaxSegments
\* segments, each of more than W and more than O words
C19_Witness ==
  /\ seg_pc = "returned"
  /\ Len(timed_video.transcript_segments) = MaxSegments
  /\ Len(seg_chunks) = MaxSegments
  /\ overlap >= 1
  /\ \A k \in 1..MaxSegments :
       /\ timed_video.transcript_segments[k].n > chunk_size
       /\ timed_video.transcript_segments[k].n > overlap

(***************************************************************************)
(* Properties of the Embedder's index and search.                          *)
(***************************************************************************)
\* a search that returned gave at most top_k chunks, each of them (by
\* chunk_id and text) among the chunks of the most recent build
C20_ReturnedWithinLatestBuild ==
  (search_result # None /\ ~search_result[1].raised) =>
    LET res == search_result[1]
    IN /\ Len(res.chunks) <= res.top_k
       /\ \A k \in 1..Len(res.chunks) :
            \E b \in 1..Len(last_build) :
              /\ last_build[b].chunk_id = res.chunks[k].chunk_id
              /\ last_build[b].text = res.chunks[k].text

\* a search on a collection without entries returned the empty sequence
C20_EmptyIndexSearchReturnsEmpty ==
  (search_result # None /\ stored = <<>>) =>
    ~search_result[1].raised /\ search_result[1].chunks = <<>>

\* C20: after any sequence of index and search calls on one Embedder, a
\* search returns at most top_k chunks, each of them (by chunk_id and text)
\* among the chunks of the most recent build, and a search on an empty or
\* unbuilt collection returns the empty sequence without raising.
C20_SearchWithinLatestBuild ==
  /\ C20_ReturnedWithinLatestBuild
  /\ C20_EmptyIndexSearchReturnsEmpty

(***************************************************************************)
(* Properties of the sessions.                                             *)
(***************************************************************************)
\* C11: distinct sessions have distinct orchestrators with distinct
\* collections; a lookup of a session returns the orchestrator created for
\* it; no search of an orchestrator returns a chunk that another
\* orchestrator's run indexed; a follow-up of a session is answered from
\* the result its own run stored.
C11_SessionsIsolated ==
  /\ \A a, b \in DOMAIN sessions :
       a # b => /\ sessions[a] # sessions[b]
                /\ orchestrators[sessions[a]].store # orchestrators[sessions[b]].store
  /\ \A session_id \in DOMAIN sessions :
       orchestrators[sessions[session_id]].created_for = session_id
  /\ \A o \in 1..Len(orchestrators) :
       /\ \A c \in orchestrators[o].retrieved : c.built_by = o
       /\ \A c \in chroma[orchestrators[o].store] : c.built_by = o
  /\ \A session_id \in DOMAIN lookups :
       lookups[session_id].status # 404 =>
         /\ orchestrators[lookups[session_id].orchestrator].created_for = session_id
         /\ lookups[session_id].status = 200 =>
              LET from == lookups[session_id].answered_from[1]
              IN /\ from.run_of = lookups[session_id].orchestrator
                 /\ \A c \in from.evidence : c.built_by = from.run_of

\* C11 witness: two sessions whose runs both indexed and retrieved chunks
\* and stored a result, each with an answered follow-up
C11_Witness ==
  /\ Cardinality(DOMAIN sessions) >= 2
  /\ \E a, b \in DOMAIN sessions :
       /\ a # b
       /\ \A x \in {a, b} :
            /\ orchestrators[sessions[x]].stage = "done"
            /\ orchestrators[sessions[x]].retrieved # {}
            /\ x \in DOMAIN lookups
            /\ lookups[x].status = 200

(***************************************************************************)
(* Analyzer._extract_features on any content of the generation response.   *)
(* A JSON value is a record [t, v]: t is its type, v its content (the      *)
(* characters of a string, the elements of a list, the mapping of an       *)
(* object).                                                                *)
(***************************************************************************)
JNull == [t |-> "null", v |-> <<>>]
JNum == [t |-> "num", v |-> <<>>]
JStr(s) == [t |-> "str", v |-> s]
JList(xs) == [t |-> "list", v |-> xs]
JObj(f) == [t |-> "obj", v |-> f]

\* equality of two JSON values
JEq(a, b) == a.t = b.t /\ a = b

\* dict.get(key, default) on a JSON object
JGet(obj, key, default) == IF key \in DOMAIN obj.v THEN obj.v[key] ELSE default

\* the values of "features" a response may carry
FeatureShapes ==
  << JList(<<>>),
     JList(<<JStr(kBatteryLife), JStr(kUiSpeed)>>),
     JList(<<JStr(kOs), JStr(kBatteryLife)>>),
     JList(<<JStr(kDesign), JStr(kOsSpeed)>>),
     JStr(kOs),
     JNum,
     JNull,
     JList(<<JNum>>),
     JList(<<JList(<<>>)>>),
     JObj([k \in {kOs} |-> JNum]) >>

\* the values of "feature_labels" a response may carry
LabelShapes ==
  << JObj([k \in {} |-> JNull]),
     JObj([k \in {kBatteryLife} |-> JStr(lBatteryLife)]),
     JObj([k \in {kOs, kBatteryLife} |->
             IF k = kOs THEN JStr(lSoftware) ELSE JStr(lEndurance)]),
     JList(<<>>),
     JList(<<JStr(kOs), JStr(kBatteryLife)>>),
     JStr(lSoftware),
     JNull >>

\* what the generation call can do.  f and l select the values of
\* "features" and "feature_labels" of a JSON object, 0 for a missing key
SchemaInputs ==
  {[kind |-> k, f |-> 0, l |-> 0] :
     k \in {"error", "nocontent", "unparsable", "list", "number", "string", "null"}}
  \cup {[kind |-> "object", f |-> i, l |-> j] :
          i \in 0..Len(FeatureShapes), j \in 0..Len(LabelShapes)}

\* the value json.loads returns for an input whose content parses
SchemaData(input) ==
  CASE input.kind = "list" -> JList(<<JStr(kOs)>>)
    [] input.kind = "number" -> JNum
    [] input.kind = "string" -> JStr(kOs)
    [] input.kind = "null" -> JNull
    [] OTHER ->
         JObj([k \in (IF input.f = 0 THEN {} ELSE {"features"})
                     \cup (IF input.l = 0 THEN {} ELSE {"feature_labels"}) |->
                 IF k = "features" THEN FeatureShapes[input.f]
                 ELSE LabelShapes[input.l]])

\* the call raised, message.content is None, or json.loads raised
SchemaCallFails(input) == input.kind \in {"error", "nocontent", "unparsable"}

\* `for f in features` raises for a value that cannot be iterated
Iterable(x) == x.t \in {"list", "str", "obj"}

\* the values `for f in features` visits
IterItems(x) ==
  IF x.t = "list" THEN x.v
  ELSE IF x.t = "str" THEN [i \in 1..Len(x.v) |-> JStr(<<x.v[i]>>)]
  ELSE LET keys == DOMAIN x.v
           RECURSIVE InOrder(_)
           InOrder(ks) == IF ks = {} THEN <<>>
                          ELSE LET k == CHOOSE k \in ks : TRUE
                               IN <<JStr(k)>> \o InOrder(ks \ {k})
       IN InOrder(keys)

\* `f not in labels` raises: an unhashable key of a dict, a non-string
\* looked for in a string, or a value that is no container
ContainsRaises(f, labels) ==
  IF labels.t = "obj" THEN f.t \in {"list", "obj"}
  ELSE IF labels.t = "list" THEN FALSE
  ELSE IF labels.t = "str" THEN f.t # "str"
  ELSE TRUE

\* `f in labels`
Contains(f, labels) ==
  IF labels.t = "obj" THEN f.t = "str" /\ f.v \in DOMAIN labels.v
  ELSE IF labels.t = "list" THEN \E i \in 1..Len(labels.v) : JEq(labels.v[i], f)
  ELSE StrIn(f.v, labels.v)

\* the loop `for f in features: if f not in labels: labels[f] = ...`:
\* whether it raised, and the labels it left
RECURSIVE FillLabels(_, _)
FillLabels(items, labels) ==
  IF items = <<>> THEN [raised |-> FALSE, labels |-> labels]
  ELSE LET f == items[1]
       IN IF ContainsRaises(f, labels) THEN [raised |-> TRUE, labels |-> labels]
          ELSE IF Contains(f, labels) THEN FillLabels(Tail(items), labels)
          ELSE IF f.t # "str"      \* f.replace raises
          THEN [raised |-> TRUE, labels |-> labels]
          ELSE IF labels.t # "obj"  \* labels[f] = ... raises
          THEN [raised |-> TRUE, labels |-> labels]
          ELSE FillLabels(Tail(items),
                          JObj((f.v :> JStr(AutoLabel(f.v))) @@ labels.v))

\* a (features, labels) pair of _extract_features as JSON values
PairAsJson(r) ==
  [features |-> JList([i \in 1..Len(r.features) |-> JStr(r.features[i])]),
   feature_labels |->
     JObj([k \in DOMAIN r.feature_labels |-> JStr(r.feature_labels[k])])]

\* what the except branch returns
SchemaFallback == PairAsJson(ExtractFeaturesResult(SchemaFailure))

\* _extract_features: the pair it returns
ExtractFeaturesJson(input) ==
  IF SchemaCallFails(input) THEN SchemaFallback
  ELSE LET data == SchemaData(input)
       IN IF data.t # "obj" THEN SchemaFallback      \* data.get raises
          ELSE LET feats == JGet(data, "features", JList(<<>>))
                   labels == JGet(data, "feature_labels", JObj([k \in {} |-> JNull]))
               IN IF ~Iterable(feats) THEN SchemaFallback
                  ELSE LET filled == FillLabels(IterItems(feats), labels)
                       IN IF filled.raised THEN SchemaFallback
                          ELSE [features |-> feats, feature_labels |-> filled.labels]

InitSchema ==
  /\ OthersIdleOfSchema
  /\ schema_input \in SchemaInputs
  /\ schema_pc = "SchemaDiscovery"
  /\ schema_out = [features |-> JNull, feature_labels |-> JNull]

\* `self.features, self.feature_labels = self._extract_features(...)`, after
\* which the caller goes on to _discover_products
ExtractFeaturesCall ==
  /\ schema_pc = "SchemaDiscovery"
  /\ schema_out' = ExtractFeaturesJson(schema_input)
  /\ schema_pc' = "EntityDiscovery"
  /\ UNCHANGED <<schema_input, othersOfSchema>>

NextSchema == ExtractFeaturesCall

\* the caller runs on until the call has returned
SpecSchema == InitSchema /\ [][NextSchema]_vars /\ WF_vars(NextSchema)

(***************************************************************************)
(* Properties of the schema discovery.                                     *)
(***************************************************************************)
lQuality == <<"Q","u","a","l","i","t","y">>
lPerformance == <<"P","e","r","f","o","r","m","a","n","c","e">>
lValueForMoney == <<"V","a","l","u","e"," ","F","o","r"," ","M","o","n","e","y">>
lDesign == <<"D","e","s","i","g","n">>

\* the five generic dimensions, in their order, and the label of each
DefaultKeys == <<kQuality, kPerformance, kBatteryLife, kValueForMoney, kDesign>>
DefaultLabels == <<lQuality, lPerformance, lBatteryLife, lValueForMoney, lDesign>>

\* the returned pair is the five defaults with their labels
IsDefaultSet(out) ==
  /\ out.features.t = "list"
  /\ Len(out.features.v) = 5
  /\ \A i \in 1..5 :
       /\ out.features.v[i].t = "str"
       /\ out.features.v[i].v = DefaultKeys[i]
  /\ out.feature_labels.t = "obj"
  /\ DOMAIN out.feature_labels.v = {DefaultKeys[i] : i \in 1..5}
  /\ \A i \in 1..5 :
       /\ out.feature_labels.v[DefaultKeys[i]].t = "str"
       /\ out.feature_labels.v[DefaultKeys[i]].v = DefaultLabels[i]

C21_Inv ==
  (schema_pc = "EntityDiscovery"
   /\ (SchemaCallFails(schema_input) \/ schema_input.kind # "object"))
    => IsDefaultSet(schema_out)

\* C21: when the generation call fails or its content does not parse into a
\* JSON object, _extract_features returns the five generic dimensions in
\* their fixed order, each with its auto-generated label, and the caller
\* goes on to entity discovery.
C21_FailureGivesDefaults ==
  /\ []C21_Inv
  /\ <>(schema_pc = "EntityDiscovery")

\* C21 witness: the call raised and the defaults were returned
C21_Witness ==
  /\ schema_pc = "EntityDiscovery"
  /\ schema_input.kind = "error"
  /\ IsDefaultSet(schema_out)

\* "features" is present and is a list of strings
FeaturesWellShaped(input) ==
  /\ input.f # 0
  /\ FeatureShapes[input.f].t = "list"
  /\ \A i \in 1..Len(FeatureShapes[input.f].v) : FeatureShapes[input.f].v[i].t = "str"

\* C22: a response that parses into a JSON object of the wrong shape (no
\* "features", or a "features" that is no list of keys) gives the five
\* defaults, as a failed call does.
C22_WrongShapeGivesDefaults ==
  (schema_pc = "EntityDiscovery" /\ schema_input.kind = "object"
   /\ ~FeaturesWellShaped(schema_input))
    => IsDefaultSet(schema_out)

(***************************************************************************)
(* Analyzer._filter_by_mention and the part of _analyze_product around it. *)
(***************************************************************************)
\* most units the per-entity retrieval returns
MaxRetrieved == 2

\* " ".join(parts)
RECURSIVE JoinWithSpace(_)
JoinWithSpace(parts) ==
  IF parts = <<>> THEN <<>>
  ELSE IF Len(parts) = 1 THEN parts[1]
  ELSE parts[1] \o <<" ">> \o JoinWithSpace(Tail(parts))

\* variants: the set built from name_lower and parts
MentionVariants(product_name) ==
  LET name_lower == StrLower(product_name)
      parts == StrSplit(name_lower)
  IN {name_lower,
      IF Len(parts) > 1 THEN JoinWithSpace(Tail(parts)) ELSE name_lower,
      IF Len(parts) > 1 THEN parts[Len(parts)] ELSE name_lower}

\* a plausible slip: the unit's text is not lower-cased
FilterByMentionCaseSensitive(chunks, product_name) ==
  SelectSeq(chunks, LAMBDA chunk :
    \E variant \in MentionVariants(product_name) : StrIn(variant, chunk.text))

\* _filter_by_mention
FilterByMention(chunks, product_name) ==
  SelectSeq(chunks, LAMBDA chunk :
    \E variant \in MentionVariants(product_name) :
      StrIn(variant, StrLower(chunk.text)))

\* entity names as the discovery response writes them
MentionNames ==
  { <<"A"," ","b"," ","C">>, <<"A"," ","b">>, <<"B">>, <<>>,
    <<" ","b">>, <<"A"," "," ","b">> }

\* texts of units
MentionTexts ==
  { <<"a"," ","B"," ","c">>, <<"x"," ","B"," ","C">>, <<"c">>, <<"x">>,
    <<"a","b">>, <<"A"," ","B">>, <<"b">> }

\* the unit lists the retrieval may return: unit i has chunk_id i
RetrievedLists ==
  UNION {{[i \in 1..n |-> [chunk_id |-> i, text |-> texts[i]]] :
            texts \in [1..n -> MentionTexts]} : n \in 0..MaxRetrieved}

InitMention ==
  /\ OthersIdleOfMention
  /\ mention_name \in MentionNames
  /\ mention_chunks \in RetrievedLists
  /\ mention_pc = "retrieved"
  /\ mention_kept = <<>>
  /\ mention_result = [outcome |-> "none", result |-> None, generated |-> FALSE]

\* _analyze_product from `if not chunks` on: the filter, the generation
\* call (if any) and the return
AnalyzeRetrieved ==
  /\ mention_pc = "retrieved"
  /\ LET kept == IF mention_chunks = <<>> THEN <<>>
                 ELSE FilterByMention(mention_chunks, mention_name)
     IN /\ mention_kept' = kept
        /\ \E resp \in AnalysisResponsesWith({<<>>}, {<<>>}) :
             mention_result' = AnalyzeProductResult(mention_name, Len(mention_chunks),
                                                    kept # <<>>, resp)
  /\ mention_pc' = "returned"
  /\ UNCHANGED <<mention_name, mention_chunks, othersOfMention>>

NextMention == AnalyzeRetrieved

SpecMention == InitMention /\ [][NextMention]_vars

(***************************************************************************)
(* Properties of the mention filter.                                       *)
(***************************************************************************)
\* the text holds the name, the name without its first token, or the last
\* token of the name, whatever the case of the letters
HoldsVariant(text, name) ==
  LET tokens == StrSplit(StrLower(name))
  IN \/ StrIn(StrLower(name), StrLower(text))
     \/ /\ Len(tokens) >= 2
        /\ \/ StrIn(JoinWithSpace(SubSeq(tokens, 2, Len(tokens))), StrLower(text))
           \/ StrIn(tokens[Len(tokens)], StrLower(text))

KeptIds == {mention_kept[k].chunk_id : k \in 1..Len(mention_kept)}

\* C23: the filter keeps, in the retrieved order, exactly the units whose
\* lower-cased text holds a match variant of the entity name; a unit that
\* holds the name itself in any case is kept; and when no unit is kept the
\* result is None and no generation call is made.
C23_MentionFilterExact ==
  mention_pc = "returned" =>
    /\ \A k \in 1..Len(mention_kept) :
         /\ mention_kept[k].chunk_id \in 1..Len(mention_chunks)
         /\ mention_kept[k] = mention_chunks[mention_kept[k].chunk_id]
         /\ k > 1 => mention_kept[k - 1].chunk_id < mention_kept[k].chunk_id
    /\ \A i \in 1..Len(mention_chunks) :
         /\ i \in KeptIds <=> HoldsVariant(mention_chunks[i].text, mention_name)
         /\ StrIn(StrLower(mention_name), StrLower(mention_chunks[i].text))
              => i \in KeptIds
    /\ mention_kept = <<>> =>
         /\ mention_result.result = None
         /\ ~mention_result.generated
    /\ mention_kept # <<>> => mention_result.generated

\* C23 witness: of two units, the one in upper case that holds only the
\* last token of a three-token name was kept and the other dropped
C23_Witness ==
  /\ mention_pc = "returned"
  /\ mention_name = <<"A"," ","b"," ","C">>
  /\ Len(mention_chunks) = 2
  /\ mention_chunks[1].text = <<"x">>
  /\ mention_chunks[2].text = <<"x"," ","B"," ","C">>
  /\ KeptIds = {2}
  /\ mention_result.generated

(***************************************************************************)
(* Analyzer._parse_product_analysis on the "features" object of a          *)
(* response, with the score and the evidence list of each key.             *)
(***************************************************************************)
\* quotes the service may write: one found in a unit but for its case, one
\* found in no unit
qtVerbatim == <<"b"," ","c">>
qtFabricated == <<"z">>

\* the units supplied to the call
SuppliedUnits ==
  { <<[chunk_id |-> 1, text |-> <<"x"," ","B"," ","C">>]>>,
    <<[chunk_id |-> 1, text |-> <<"a","b">>],
      [chunk_id |-> 2, text |-> <<"B"," ","c"," ","d">>]>> }

\* the values of one key of "features": "score" is missing, a number or
\* null, "evidence" a list of objects with a "quote"
FeatureDataShapes ==
  { [score |-> [t |-> "num", n |-> MaxScore], evidence |-> <<>>],
    [score |-> [t |-> "num", n |-> MaxScore], evidence |-> <<[quote |-> qtVerbatim]>>],
    [score |-> [t |-> "missing", n |-> 0], evidence |-> <<[quote |-> qtFabricated]>>],
    [score |-> [t |-> "null", n |-> 0], evidence |-> <<>>] }

\* the keys the service may use: the dimensions of the schemas
ResponseKeys == {kBatteryLife, kUiSpeed, kOs}

\* the "features" objects of a response
FeatureObjects ==
  UNION {[ks -> FeatureDataShapes] : ks \in SUBSET ResponseKeys}

\* float(feature_data.get("score", 0)): raises for null
ScoreRaises(feature_data) == feature_data.score.t = "null"
ScoreOf(feature_data) ==
  IF feature_data.score.t = "missing" THEN 0 ELSE feature_data.score.n

\* FeatureScore(score, evidence) of one key
ParseFeatureScore(feature_data) ==
  [score |-> ScoreOf(feature_data),
   evidence |-> [i \in 1..Len(feature_data.evidence) |->
                   [quote |-> feature_data.evidence[i].quote]]]

\* _analyze_product from json.loads on: the ProductAnalysis of
\* _parse_product_analysis, or None if it raised
ParseAnalysisData(data) ==
  IF \E k \in DOMAIN data.features : ScoreRaises(data.features[k])
  THEN None
  ELSE Some([features |-> [k \in DOMAIN data.features |->
                             ParseFeatureScore(data.features[k])]])

InitParse ==
  /\ OthersIdleOfParse
  /\ \E resp \in SchemaResponses : parse_features = ExtractFeaturesResult(resp).features
  /\ parse_units \in SuppliedUnits
  /\ \E fo \in FeatureObjects : parse_data = [features |-> fo]
  /\ parse_pc = "answered"
  /\ parse_out = None

\* `return self._parse_product_analysis(data)` inside the try
ParseCall ==
  /\ parse_pc = "answered"
  /\ parse_out' = ParseAnalysisData(parse_data)
  /\ parse_pc' = "returned"
  /\ UNCHANGED <<parse_features, parse_units, parse_data, othersOfParse>>

NextParse == ParseCall

SpecParse == InitParse /\ [][NextParse]_vars

(***************************************************************************)
(* Properties of the parsed analysis.                                      *)
(***************************************************************************)
\* the quote is found in the text of a supplied unit, whatever the case
QuoteSupplied(quote) ==
  \E u \in 1..Len(parse_units) : StrIn(StrLower(quote), StrLower(parse_units[u].text))

\* C24: every evidence item of a produced analysis has a quote that is,
\* but for its case, a substring of the text of a unit supplied to the
\* entity's analysis call.
C24_EvidenceVerbatim ==
  (parse_pc = "returned" /\ parse_out # None) =>
    \A k \in DOMAIN parse_out[1].features :
      \A i \in 1..Len(parse_out[1].features[k].evidence) :
        QuoteSupplied(parse_out[1].features[k].evidence[i].quote)

\* C25: the keys of the dimension mapping of a produced analysis are among
\* the run's dimension keys, and a run dimension the response leaves out is
\* not in the mapping.
C25_DimensionKeysWithinSchema ==
  (parse_pc = "returned" /\ parse_out # None) =>
    /\ DOMAIN parse_out[1].features \subseteq SeqToSet(parse_features)
    /\ \A k \in SeqToSet(parse_features) :
         k \notin DOMAIN parse_data.features => k \notin DOMAIN parse_out[1].features

(***************************************************************************)
(* Properties of what a run shows its caller.                              *)
(***************************************************************************)
\* the messages a failure path may show
FixedMessages ==
  {"Could not find any products in the search results. Try a different query.",
   "Something went wrong: ",
   "Sorry, I couldn't process that. Please try again.",
   "No analysis available yet. Please run a new search first.",
   "No analysis results found for this session."}

\* C26: every message shown on a failure path (the error event of the
\* streaming pipeline, the failure answer of a follow-up, the 'no analysis
\* available' outcome) is one of a fixed set and carries no text of the
\* exception that was caught.
C26_NoExceptionTextShown ==
  /\ terminal.kind = "error" =>
       /\ terminal.message \in FixedMessages
       /\ terminal.detail = ""
  /\ (reply.via # "none" /\ reply.response_type # "products"
      /\ reply.answer # "<generated answer>") =>
       reply.answer \in FixedMessages

\* the entity calls made so far in this run
EntityCalls == calls.analyze_product

\* C27: between two consecutive per-entity analysis calls of a run a fixed
\* pause is made, in Analyzer.analyze and in the streaming pipeline alike:
\* when k entity calls were made, at least k - 1 pauses were made.
C27_PauseBetweenEntityCalls ==
  EntityCalls >= 2 => calls.sleep >= EntityCalls - 1

(***************************************************************************)
(* Properties of the result a streamed run publishes.                      *)
(***************************************************************************)
\* the stored result is that of a finished run: every entity was analysed,
\* and the list holds the retained entities only, by descending score
CompleteResult ==
  /\ stage = "Done"
  /\ Len(results) = Len(product_names)
  /\ Len(Products) = Cardinality(Retained)
  /\ \A a \in 1..Len(Products) :
       /\ ~IsNone(Products[a].overall_score)
       /\ Score(Products[a]) > 0
       /\ \E i \in Retained : Products[a] = Val(results[i])
  /\ \A a, b \in 1..Len(Products) :
       a < b => Score(Products[a]) >= Score(Products[b])

C28_Inv ==
  mode = "stream" => (IsNone(final_output) \/ CompleteResult)

C28_Step ==
  mode = "stream" =>
    \* the result is published once, by the step that ends the analysis
    /\ final_output' # final_output =>
         (IsNone(final_output) /\ stage = "Analyzing" /\ stage' = "Done")
    \* a follow-up made before that sees no product
    /\ (reply' # reply /\ IsNone(final_output)) =>
         /\ reply'.products = <<>>
         /\ reply'.response_type # "products"
         /\ ~reply'.generated
         /\ (reply'.via = "POST /followup" => reply'.raised /\ reply'.status = 400)

\* C28: in a streamed run, with follow-ups of the same session arriving at
\* any point, the stored result is absent or the complete, filtered and
\* sorted final result; it is published by one assignment after the last
\* entity was analysed, and a follow-up that arrives earlier is rejected
\* and is shown no product.
C28_StreamPublishesOnlyCompleteResult ==
  /\ []C28_Inv
  /\ [][C28_Step]_vars

\* C28 witness: a streamed run has analysed the first of two entities with
\* a positive score, and a follow-up of the session was rejected
C28_Witness ==
  /\ mode = "stream"
  /\ stage = "Analyzing"
  /\ Len(product_names) = 2
  /\ Len(results) = 1
  /\ 1 \in Retained
  /\ IsNone(final_output)
  /\ reply.via = "POST /followup"
  /\ reply.status = 400

(***************************************************************************)
(* Properties of the segment ranges of timed units.                        *)
(***************************************************************************)
\* the segments (by position) that the k-th unit of the call holds
SegmentRange(k) == SeqToSet(seg_chunks[k].text)

\* C30: in timed-segment segmentation every unit after the first holds a
\* segment that the unit before it does not hold, so no unit follows a unit
\* that holds the last segment of the document.  Stated for the ordinary
\* inputs only: 1 <= O < W and no segment without words.
C30_EveryUnitAddsASegment ==
  (/\ overlap >= 1 /\ overlap < chunk_size
   /\ \A s \in 1..Len(timed_video.transcript_segments) :
        timed_video.transcript_segments[s].n >= 1) =>
    \A k \in 2..Len(seg_chunks) :
      /\ ~(SegmentRange(k) \subseteq SegmentRange(k - 1))
      /\ Len(timed_video.transcript_segments) \notin SegmentRange(k - 1)

(***************************************************************************)
(* progress_stream: one streamed run, followed from one yield to the next, *)
(* with POST /followup requests for its session arriving at any time.      *)
(* The session is created before the generator and is not deleted.         *)
(***************************************************************************)
\* format_sse(event, data): the event, the entity it names (0: none) and
\* the fixed part of its message
Sse(event, product, message) ==
  [event |-> event, product |-> product, message |-> message]

ProgressEvent == Sse("progress", 0, "")

\* the event of the `except Exception as e` handler
CaughtEvent == Sse("error", 0, "Something went wrong: ")

\* the event of the `if not product_names` exit
NoProductsEvent ==
  Sse("error", 0,
      "Could not find any products in the search results. Try a different query.")

\* an exception reaches the handler of progress_stream, which yields its
\* event; the generator then ends
StreamCaught ==
  /\ stream_events' = Append(stream_events, CaughtEvent)
  /\ stream_pc' = "closed"

\* the generator yields ev and is suspended at pc
StreamYield(ev, pc) ==
  /\ stream_events' = Append(stream_events, ev)
  /\ stream_pc' = pc

InitStream ==
  /\ OthersIdleOfStream
  /\ stream_pc = "created"
  /\ stream_events = <<>>
  /\ stream_indexed = 0
  /\ stream_names = <<>>
  /\ stream_results = <<>>
  /\ stream_output = None
  /\ stream_reply = NoStreamReply

\* the first step of the generator: the "Processing ..." event
ResumeCreated ==
  /\ stream_pc = "created"
  /\ StreamYield(ProgressEvent, "chunking")
  /\ UNCHANGED <<stream_indexed, stream_names, stream_results, stream_output,
                 stream_reply>>
  /\ UNCHANGED othersOfStream

\* chunk_all, then the "Created ..." event; stream_indexed holds
\* len(all_chunks) until the index call
ResumeChunkAll ==
  /\ stream_pc = "chunking"
  /\ \E n \in 0..MaxChunks : stream_indexed' = n
  /\ StreamYield(ProgressEvent, "indexing")
  /\ UNCHANGED <<stream_names, stream_results, stream_output, stream_reply>>
  /\ UNCHANGED othersOfStream

\* Embedder.index, then the "Identifying ..." event; an empty list is not
\* embedded
ResumeIndex ==
  /\ stream_pc = "indexing"
  /\ \E embOK \in BOOLEAN :
       IF stream_indexed = 0 \/ embOK
       THEN StreamYield(ProgressEvent, "extracting")
       ELSE StreamCaught
  /\ UNCHANGED <<stream_indexed, stream_names, stream_results, stream_output,
                 stream_reply>>
  /\ UNCHANGED othersOfStream

\* _extract_features, then the "Features identified: ..." event, whose
\* message joins labels.values(): the join raises when a label is not a
\* string
ResumeExtractFeatures ==
  /\ stream_pc = "extracting"
  /\ \E joinable \in BOOLEAN :
       IF joinable
       THEN StreamYield(ProgressEvent, "discovering")
       ELSE StreamCaught
  /\ UNCHANGED <<stream_indexed, stream_names, stream_results, stream_output,
                 stream_reply>>
  /\ UNCHANGED othersOfStream

\* _discover_products, then the no-products exit or the products_found event
ResumeDiscover ==
  /\ stream_pc = "discovering"
  /\ \E embOK \in BOOLEAN, resp \in DiscoveryResponses :
       IF ~embOK
       THEN /\ StreamCaught
            /\ UNCHANGED stream_names
       ELSE LET names == IF Min(DiscoveryTopK, stream_indexed) = 0
                         THEN <<>> ELSE ParseDiscovery(resp)
            IN /\ stream_names' = names
               /\ IF NoProducts(names)
                  THEN StreamYield(NoProductsEvent, "closed")
                  ELSE StreamYield(Sse("products_found", 0, ""), "found")
  /\ UNCHANGED <<stream_indexed, stream_results, stream_output, stream_reply>>
  /\ UNCHANGED othersOfStream

\* the first pass through the head of the loop: the "Analyzing ..." event
\* of the first entity
ResumeFound ==
  /\ stream_pc = "found"
  /\ StreamYield(Sse("analyzing", stream_names[1], ""), "analyzing")
  /\ UNCHANGED <<stream_indexed, stream_names, stream_results, stream_output,
                 stream_reply>>
  /\ UNCHANGED othersOfStream

\* _analyze_product for the entity just announced, then either the
\* "Analyzing ..." event of the next entity or, after the last one, filter,
\* sort, store and the done event
ResumeAnalyze ==
  /\ stream_pc = "analyzing"
  /\ \E embOK \in BOOLEAN, mentioned \in BOOLEAN,
        resp \in AnalysisResponses(stream_names[Len(stream_results) + 1]) :
       LET product_name == stream_names[Len(stream_results) + 1]
           r == AnalyzeProductResult(product_name,
                                     Min(ProductTopK, stream_indexed),
                                     mentioned, resp)
           rs == Append(stream_results, r.result)
       IN IF ~embOK
          THEN /\ StreamCaught
               /\ UNCHANGED <<stream_results, stream_output>>
          ELSE /\ stream_results' = rs
               /\ IF LoopFinished(rs, stream_names)
                  THEN /\ stream_output' = Some([products |-> FinalProducts(rs)])
                       /\ StreamYield(Sse("done", 0, ""), "closed")
                  ELSE /\ StreamYield(Sse("analyzing", stream_names[Len(rs) + 1], ""),
                                      "analyzing")
                       /\ UNCHANGED stream_output
  /\ UNCHANGED <<stream_indexed, stream_names, stream_reply>>
  /\ UNCHANGED othersOfStream

\* the done event is among the yielded events
DoneEmitted ==
  \E i \in 1..Len(stream_events) : stream_events[i].event = "done"

\* POST /followup for the session: the 400 of the endpoint, the fixed text
\* of handle_followup for an empty product list, or an answer drawn from
\* the stored analysis
StreamFollowupReply(fo) ==
  IF EndpointRejects(fo)
  THEN [status |-> 400, answer |-> "No analysis results found for this session."]
  ELSE IF Val(fo).products = <<>>
  THEN [status |-> 200, answer |-> NoAnalysisAnswer.answer]
  ELSE [status |-> 200, answer |-> "<answer from the stored analysis>"]

StreamFollowup ==
  /\ stream_pc # "idle"
  /\ stream_reply' = [status |-> StreamFollowupReply(stream_output).status,
                      answer |-> StreamFollowupReply(stream_output).answer,
                      after_done |-> DoneEmitted]
  /\ UNCHANGED <<stream_pc, stream_events, stream_indexed, stream_names,
                 stream_results, stream_output>>
  /\ UNCHANGED othersOfStream

NextStream ==
  \/ ResumeCreated
  \/ ResumeChunkAll
  \/ ResumeIndex
  \/ ResumeExtractFeatures
  \/ ResumeDiscover
  \/ ResumeFound
  \/ ResumeAnalyze
  \/ StreamFollowup

SpecStream == InitStream /\ [][NextStream]_vars

(***************************************************************************)
(* Properties of the event sequence of a streamed run.                     *)
(***************************************************************************)
IsTerminalEvent(ev) == ev.event \in {"done", "error"}

\* the entities named by the analyzing events, in the order of the events
Announced ==
  LET an == SelectSeq(stream_events, LAMBDA ev : ev.event = "analyzing")
  IN [i \in 1..Len(an) |-> an[i].product]

\* a terminal event is the last event, and a run that has ended has one
OneTerminalEventLast ==
  /\ \A i \in 1..Len(stream_events) :
       IsTerminalEvent(stream_events[i]) => i = Len(stream_events)
  /\ stream_pc = "closed" =>
       /\ stream_events # <<>>
       /\ IsTerminalEvent(stream_events[Len(stream_events)])

\* products_found comes before every analyzing event
FoundBeforeAnalyzing ==
  \A i \in 1..Len(stream_events) :
    stream_events[i].event = "analyzing" =>
      \E j \in 1..(i - 1) : stream_events[j].event = "products_found"

\* the analyzing events follow the discovery order, and a run that has ended
\* has announced every discovered entity
OneAnalyzingPerEntity ==
  /\ Len(Announced) <= Len(stream_names)
  /\ \A i \in 1..Len(Announced) : Announced[i] = stream_names[i]
  /\ stream_pc = "closed" => Announced = stream_names

\* done is yielded only once the result is stored
DoneAfterStored == DoneEmitted => ~IsNone(stream_output)

\* a follow-up sent after done is answered from the stored analysis
FollowupAfterDoneFindsAnalysis ==
  stream_reply.after_done =>
    /\ stream_reply.status = 200
    /\ stream_reply.answer # NoAnalysisAnswer.answer

\* C29: every streamed run yields exactly one terminal event (done or
\* error), as its last event; products_found comes before every analyzing
\* event; one analyzing event is yielded per discovered entity, in discovery
\* order; done is yielded only after the result is stored; and a follow-up
\* sent after done finds the stored analysis.
C29_StreamEventOrder ==
  /\ OneTerminalEventLast
  /\ FoundBeforeAnalyzing
  /\ OneAnalyzingPerEntity
  /\ DoneAfterStored
  /\ FollowupAfterDoneFindsAnalysis
====
